---- MODULE Spec2Model ----
(***************************************************************************)
(* Trade-simulation state machines of the SMA crossover backtests.         *)
(*                                                                         *)
(*   Spec       sma50-strategy/scripts/backtest.py, run_backtest: one      *)
(*              action per iteration of the loop over common_ts and one    *)
(*              for the code after the loop.                               *)
(*   SpecDaily  sma-daily-trading/scripts/backtest_v3.py, run_backtest:    *)
(*              one action per iteration of the loop over the daily rows   *)
(*              and one for the code after the loop.                       *)
(*                                                                         *)
(* Prices and money are exact rationals [n, d]; percentages are held in    *)
(* permille.  Timestamps are bar numbers, dates are day numbers.           *)
(***************************************************************************)
EXTENDS Integers, Sequences, FiniteSets, TLC

\* ------------------------------------------------------------------ bounds

\* Number of calendar dates of the daily series (dates 1..NumDays).
NumDays == 4
\* Number of bars of common_ts.
MaxBars == 4
\* Moving-average window the runs are started with (--sma-period).
SmaPeriod == 2
RerunBars == 3

\* ------------------------------------------------- configuration (argparse)

\* --fixed-stop default 0.075, in permille
FIXED_STOP_PCT == 75
\* --trailing-stop default 0.15, in permille
TRAILING_STOP_PCT == 150
\* --capital
StartCapital == 1000
\* The <<--slippage, --commission>> settings the runs are started with:
\* slippage in permille (0: --no-slippage), commission in dollars.
Frictions == {<<0, 0>>, <<200, 5>>}
\* Settings whose commission takes all of the capital, or more.
UnfundedFrictions == {<<0, 1000>>, <<200, 1200>>}

\* Closes of the signal instrument, daily and intraday.
SignalPrices == {9, 11}
\* Prices of the trade instrument's bars.
TradePrices == {34, 37, 40}

\* Number of daily rows of backtest_v3's frames after the first.
MaxRows == 4

\* backtest_v3: fixed_stop_pct=10, trailing_stop_pct=15, in percent
V3_FIXED_STOP_PCT == 10
V3_TRAILING_STOP_PCT == 15
\* backtest_v3: capital
V3Capital == 10000
\* Prices of the trade instrument's daily bars.
DailyTradePrices == {76, 85, 90}
\* Calendar days from one daily row to the next.
DailySignalPrices == {9, 11, 13}
DateGaps == {1, 3}

\* None of Python, for a string or a truth value
None == "None"
\* None of Python for a date (dates count from 1)
NoDate == 0
\* A timestamp: its calendar date and the number of its bar in the series.
Ts(date, bar) == [date |-> date, bar |-> bar]
\* None of Python for a timestamp
NoTs == Ts(NoDate, 0)

\* ---------------------------------------------------------- exact numbers

Abs(x) == IF x < 0 THEN -x ELSE x

RECURSIVE GCD(_, _)
GCD(a, b) == IF b = 0 THEN a ELSE GCD(b, a % b)

\* The rational n/d in lowest terms with a positive denominator.
Rat(n, d) ==
    LET g == GCD(Abs(n), Abs(d))
        sg == IF d < 0 THEN -1 ELSE 1
    IN [n |-> sg * (n \div g), d |-> sg * (d \div g)]

RInt(k) == [n |-> k, d |-> 1]

\* NaN of a float, and None of Python where a number is expected
NaN == [n |-> 0, d |-> 0]

RMul(a, b) ==
    LET g1 == GCD(Abs(a.n), b.d)
        g2 == GCD(Abs(b.n), a.d)
    IN Rat((a.n \div g1) * (b.n \div g2), (a.d \div g2) * (b.d \div g1))

RDiv(a, b) == RMul(a, Rat(b.d, b.n))

RAdd(a, b) ==
    LET g == GCD(a.d, b.d)
    IN Rat(a.n * (b.d \div g) + b.n * (a.d \div g), (a.d \div g) * b.d)

RNeg(a) == [n |-> -a.n, d |-> a.d]

RSub(a, b) == RAdd(a, RNeg(b))

RAbs(a) == [n |-> Abs(a.n), d |-> a.d]

RLt(a, b) == a.n * b.d < b.n * a.d

RLe(a, b) == a.n * b.d <= b.n * a.d

RMax(a, b) == IF RLt(a, b) THEN b ELSE a

\* 1 - p/1000 and 1 + p/1000
OneMinus(p) == Rat(1000 - p, 1000)

OnePlus(p) == Rat(1000 + p, 1000)

\* round(x, 2): to the nearest cent, a tie to the even cent.
Round2(x) ==
    LET c == 100 * x.n
        f == c \div x.d
        r == c - f * x.d
        k == IF 2 * r < x.d THEN f
             ELSE IF 2 * r > x.d THEN f + 1
             ELSE IF f % 2 = 0 THEN f ELSE f + 1
    IN Rat(k, 100)

\* ------------------------------------------------------------------- state

VARIABLES
    \* inputs of run_backtest
    sma_period,             \* args.sma_period
    slippage,               \* permille; 0.0 if args.no_slippage else args.slippage
    commission,             \* args.commission
    qqq_daily,              \* daily closes of the signal instrument, by date
    \* built before the loop
    sma_by_date, daily_close_by_date,
    \* locals of run_backtest that live across iterations
    capital, shares, entry_price, highest,
    last_exit_date, last_exit_was_eod,
    trades, in_position, prev_above_sma, pending_eod_exit,
    total_slippage_cost, total_commission_cost,
    \* locals of the iteration just executed (None: not assigned in it)
    loc,
    \* "loop": inside for ts in common_ts; "done": run_backtest has returned;
    \* "reported": print_report has printed the summary
    pc,
    \* print_report: the percentage printed as Win Rate (NaN: not printed)
    win_rate,
    \* two calls of run_backtest with the same frames and the same args:
    \* the bars of common_ts, each call's locals, and the call in progress
    bar_series, run_one, run_two, rerun_pc,
    \* the caller's qqq_daily frame, and the frame the local name qqq_daily
    \* of the call in progress is bound to: the order of the index, the columns
    caller_daily, local_daily,
    \* backtest_v3.run_backtest
    qqq_window,             \* the last sma_period closes of qqq, oldest first
    qqq_prev,               \* close and sma of row i-1 of qqq
    v3_trades, portfolio, position, signal_memory, t1_locked_until,
    reentry_count,
    v3_loc,                 \* locals of the iteration just executed
    v3_pc,
    \* technical-backtesting/scripts/sma50_v5.py (a script: module globals)
    v5_window,              \* the last closes of qqq_daily, oldest first
    v5_capital, v5_shares, v5_entry_price, v5_highest, v5_last_exit_date,
    v5_trades, v5_in_position, v5_prev_above_sma, v5_eod_above_sma,
    v5_pending_eod_exit,
    v5_loc,                 \* locals of the iteration just executed
    v5_pc

cfgvars == <<sma_period, slippage, commission, qqq_daily,
            sma_by_date, daily_close_by_date>>

simvars == <<capital, shares, entry_price, highest, last_exit_date,
             last_exit_was_eod, trades, in_position, prev_above_sma,
             pending_eod_exit, total_slippage_cost, total_commission_cost>>

v3vars == <<qqq_window, qqq_prev, v3_trades, portfolio, position,
            signal_memory, t1_locked_until, reentry_count, v3_loc, v3_pc>>

v5vars == <<v5_window, v5_capital, v5_shares, v5_entry_price, v5_highest,
            v5_last_exit_date, v5_trades, v5_in_position, v5_prev_above_sma,
            v5_eod_above_sma, v5_pending_eod_exit, v5_loc, v5_pc>>

reportvars == <<win_rate>>

rerunvars == <<bar_series, run_one, run_two, rerun_pc,
               caller_daily, local_daily>>

vars == <<cfgvars, simvars, loc, pc, reportvars, rerunvars, v3vars, v5vars>>

\* --------------------------------------------------- signal evaluator

RECURSIVE SumCloses(_, _, _)
SumCloses(closes, from, to) ==
    IF from > to THEN 0 ELSE closes[from] + SumCloses(closes, from + 1, to)

\* Mutant: the window ends at the row before.
RollingMeanExclusive(closes, period, i) ==
    IF i <= period THEN NaN
    ELSE Rat(SumCloses(closes, i - period, i - 1), period)

\* qqq_daily["close"].rolling(period).mean(): NaN (None) until `period`
\* closes exist, then the mean of the last `period` closes.
RollingMean(closes, period, i) ==
    IF i < period THEN NaN
    ELSE Rat(SumCloses(closes, i - period + 1, i), period)

\* sma_by_date: the dates whose rolling mean is not NaN, with the mean.
SmaByDate(closes, period) ==
    [sd \in {x \in 1..Len(closes) : RollingMean(closes, period, x) # NaN}
        |-> RollingMean(closes, period, sd)]

\* daily_close_by_date: the same dates, with the daily close.
DailyCloseByDate(closes, period) ==
    [sd \in DOMAIN SmaByDate(closes, period) |-> closes[sd]]

SetMax(S) == CHOOSE x \in S : \A y \in S : y <= x

\* Mutant: the date's own SMA counts as an earlier one.
PrevSmaDatesInclusive(by_date, d) == {sd \in DOMAIN by_date : sd <= d}

\* prev_sma_dates = [sd for sd in sma_by_date if sd < d]
PrevSmaDates(by_date, d) == {sd \in DOMAIN by_date : sd < d}

\* above_sma = qqq_price > sma_val
AboveSma(price, sma_val) == RLt(sma_val, RInt(price))

\* ------------------------------------------------------ fills and stops

\* Mutant: both directions lower the price.
apply_slippage_down(price, direction, slippage_pct) ==
    RMul(price, OneMinus(slippage_pct))

\* apply_slippage(price, direction, slippage_pct)
apply_slippage(price, direction, slippage_pct) ==
    IF direction = "buy" THEN RMul(price, OnePlus(slippage_pct))
    ELSE RMul(price, OneMinus(slippage_pct))

FixedStop(entry, fixed_pct) == RMul(entry, OneMinus(fixed_pct))

TrailingStop(high, trailing_pct) == RMul(high, OneMinus(trailing_pct))

\* Mutant: the trailing stop alone.
ActiveStopTrailing(fixed_stop, trailing_stop) == trailing_stop

ActiveStop(fixed_stop, trailing_stop) == RMax(fixed_stop, trailing_stop)

\* Mutant: highest follows the bar's high.
UpdateHighestLast(high, tqqq_high) == RInt(tqqq_high)

\* if tqqq_high > highest: highest = tqqq_high
UpdateHighest(high, tqqq_high) ==
    IF RLt(high, RInt(tqqq_high)) THEN RInt(tqqq_high) ELSE high

\* if tqqq_low <= active_stop
StopHit(tqqq_low, active_stop) == RLe(RInt(tqqq_low), active_stop)

\* Mutant: every stop exit is filled at the stop price.
StopFillAtStop(tqqq_high, tqqq_close, active_stop) == active_stop

\* raw_exit_price of a stop exit
StopFill(tqqq_high, tqqq_close, active_stop) ==
    IF RLt(RInt(tqqq_high), active_stop) THEN RInt(tqqq_close) ELSE active_stop

\* Mutant: the session's last bar is not excepted.
SmaExitHitAnyBar(prev, above, is_last_bar) == prev /\ ~above

\* elif prev_above_sma and not above_sma and not is_last_bar
SmaExitHit(prev, above, is_last_bar) == prev /\ ~above /\ ~is_last_bar

\* Mutant: the SMA cross is tested before the stop.
ExitReasonSmaFirst(tqqq_low, active_stop, prev, above, is_last_bar) ==
    IF SmaExitHit(prev, above, is_last_bar) THEN "SMA EXIT"
    ELSE IF StopHit(tqqq_low, active_stop) THEN "STOP"
    ELSE None

\* exit_reason as the if / elif of CHECK EXITS sets it
ExitReason(tqqq_low, active_stop, prev, above, is_last_bar) ==
    IF StopHit(tqqq_low, active_stop) THEN "STOP"
    ELSE IF SmaExitHit(prev, above, is_last_bar) THEN "SMA EXIT"
    ELSE None

\* Mutant: the previous signal state is not looked at.
EntrySignalNoEdge(prev, above) == above

\* elif not prev_above_sma and above_sma
EntrySignal(prev, above) == ~prev /\ above

\* Mutant: the cooldown compares against no date.
CooldownNever(exit_date, d, was_eod) == FALSE

\* Mutant: an end-of-day exit bars entries on its date as well.
CooldownAnyExit(exit_date, d, was_eod) == exit_date = d

\* if last_exit_date == d and not last_exit_was_eod
CooldownBlocks(exit_date, d, was_eod) == exit_date = d /\ ~was_eod

\* Mutant: the fill is not added to the commission total.
ChargeNothing(total, fee) == total

\* total_commission_cost += commission
ChargeCommission(total, fee) == RAdd(total, RInt(fee))

\* ----------------------------------------------- one iteration, by parts

\* The simulation state as one value, with the iteration's locals unset.
\* acts lists the fills executed in the iteration, in order.
SimState ==
    [capital |-> capital, shares |-> shares, entry_price |-> entry_price,
     highest |-> highest, last_exit_date |-> last_exit_date,
     last_exit_was_eod |-> last_exit_was_eod, trades |-> trades,
     in_position |-> in_position, prev_above_sma |-> (prev_above_sma = "True"),
     pending_eod_exit |-> pending_eod_exit,
     total_slippage_cost |-> total_slippage_cost,
     total_commission_cost |-> total_commission_cost,
     fixed_stop |-> NaN, trailing_stop |-> NaN, active_stop |-> NaN,
     exit_reason |-> None, raw_exit_price |-> NaN,
     acts |-> <<>>, continued |-> FALSE, used |-> FALSE]

\* What the iteration's locals keep of the state the body ended in.
BodyLocals(b, s) ==
    [b EXCEPT !.path = "trade",
              !.tqqq_close = IF s.used THEN @ ELSE 0,
              !.tqqq_high = IF s.used THEN @ ELSE 0,
              !.tqqq_low = IF s.used THEN @ ELSE 0,
              !.fixed_stop = s.fixed_stop,
              !.trailing_stop = s.trailing_stop,
              !.active_stop = s.active_stop,
              !.exit_reason = s.exit_reason,
              !.raw_exit_price = s.raw_exit_price,
              !.cooldown = s.continued,
              !.acts = s.acts]

\* The fill of a sale and trades[-1].update({...}); shared by the pending
\* end-of-day exit and the stop / SMA exit.
Sell(s, b, raw, reason) ==
    LET fill == apply_slippage(raw, "sell", slippage)
        slip_cost == RMul(s.shares, RAbs(RSub(raw, fill)))
        pnl == RSub(RMul(s.shares, RSub(fill, s.entry_price)), RInt(commission))
        n == Len(s.trades)
    IN [s EXCEPT
          !.total_slippage_cost = RAdd(@, slip_cost),
          !.total_commission_cost = ChargeCommission(@, commission),
          !.capital = RSub(RMul(s.shares, fill), RInt(commission)),
          !.trades = [@ EXCEPT ![n] =
              [@ EXCEPT !.exit_dt = Ts(b.d, b.ts), !.exit_price = fill,
                        !.raw_exit_price = raw, !.pnl = Round2(pnl),
                        !.exit_reason = reason,
                        !.slippage_cost = Round2(slip_cost),
                        !.commission = commission]],
          !.in_position = FALSE,
          !.shares = RInt(0),
          !.last_exit_date = b.d,
          !.acts = Append(@, [kind |-> "exit", reason |-> reason]),
          !.used = TRUE]

\* Mutant: the pending exit leaves in_position set.
PendingEodExitStaysIn(s, b) ==
    IF s.pending_eod_exit /\ b.is_first_bar /\ s.in_position
    THEN [Sell(s, b, RInt(b.tqqq_close), "SMA EXIT (EOD)") EXCEPT
            !.in_position = TRUE,
            !.last_exit_was_eod = TRUE,
            !.pending_eod_exit = FALSE,
            !.prev_above_sma = FALSE]
    ELSE s

\* Mutant: a bar that touches the stop is left to CHECK EXITS.
PendingEodExitUnlessStop(s, b) ==
    IF s.pending_eod_exit /\ b.is_first_bar /\ s.in_position
       /\ ~StopHit(b.tqqq_low,
                   ActiveStop(FixedStop(s.entry_price, FIXED_STOP_PCT),
                              TrailingStop(UpdateHighest(s.highest, b.tqqq_high),
                                           TRAILING_STOP_PCT)))
    THEN [Sell(s, b, RInt(b.tqqq_close), "SMA EXIT (EOD)") EXCEPT
            !.last_exit_was_eod = TRUE,
            !.pending_eod_exit = FALSE,
            !.prev_above_sma = FALSE]
    ELSE s

\* Handle pending EOD exit at market open
PendingEodExit(s, b) ==
    IF s.pending_eod_exit /\ b.is_first_bar /\ s.in_position
    THEN [Sell(s, b, RInt(b.tqqq_close), "SMA EXIT (EOD)") EXCEPT
            !.last_exit_was_eod = TRUE,
            !.pending_eod_exit = FALSE,
            !.prev_above_sma = FALSE]
    ELSE s

\* if pending_eod_exit and is_first_bar: pending_eod_exit = False
ClearPending(s, b) ==
    IF s.pending_eod_exit /\ b.is_first_bar
    THEN [s EXCEPT !.pending_eod_exit = FALSE]
    ELSE s

\* CHECK EXITS: the body of `if in_position:`
CheckExits(s, b) ==
    LET high == UpdateHighest(s.highest, b.tqqq_high)
        fixed_stop == FixedStop(s.entry_price, FIXED_STOP_PCT)
        trailing_stop == TrailingStop(high, TRAILING_STOP_PCT)
        active_stop == ActiveStop(fixed_stop, trailing_stop)
        exit_reason == ExitReason(b.tqqq_low, active_stop, s.prev_above_sma,
                                  b.above_sma, b.is_last_bar)
        raw_exit_price ==
            IF exit_reason = "STOP"
            THEN StopFill(b.tqqq_high, b.tqqq_close, active_stop)
            ELSE IF exit_reason = "SMA EXIT" THEN RInt(b.tqqq_close) ELSE NaN
        s1 == [s EXCEPT !.used = TRUE,
                        !.highest = high, !.fixed_stop = fixed_stop,
                        !.trailing_stop = trailing_stop,
                        !.active_stop = active_stop,
                        !.exit_reason = exit_reason,
                        !.raw_exit_price = raw_exit_price]
    IN IF exit_reason # None
       THEN [Sell(s1, b, raw_exit_price, exit_reason) EXCEPT
               !.last_exit_was_eod = FALSE]
       ELSE s1

\* Mutant: half of the capital is invested.
EntrySharesHalf(cap, price) == RDiv(cap, RMul(price, RInt(2)))

\* shares = capital / entry_price
EntryShares(cap, price) == RDiv(cap, price)

\* Mutant: the records are numbered from 0.
TradeNumFromZero(trs) == Len(trs)

\* "trade_num": len(trades) + 1
TradeNum(trs) == Len(trs) + 1

\* The entry's fill and ledger record; flag is the value in_position takes.
EntryFill(s, b, flag) ==
    LET raw_entry_price == RInt(b.tqqq_close)
        price == apply_slippage(raw_entry_price, "buy", slippage)
        cap == RSub(s.capital, RInt(commission))
        sh == EntryShares(cap, price)
        slip_cost == RMul(sh, RAbs(RSub(price, raw_entry_price)))
    IN [s EXCEPT
          !.entry_price = price,
          !.total_commission_cost = ChargeCommission(@, commission),
          !.capital = cap,
          !.shares = sh,
          !.total_slippage_cost = RAdd(@, slip_cost),
          !.highest = RInt(b.tqqq_high),
          !.trades = Append(@,
              [trade_num |-> TradeNum(s.trades), entry_dt |-> Ts(b.d, b.ts),
               entry_price |-> price, raw_entry_price |-> raw_entry_price,
               exit_dt |-> NoTs, exit_price |-> NaN,
               raw_exit_price |-> NaN, pnl |-> NaN, exit_reason |-> None,
               slippage_cost |-> Round2(slip_cost),
               commission |-> commission,
               entry_capital |-> cap, shares |-> sh]),
          !.in_position = flag,
          !.last_exit_was_eod = FALSE,
          !.acts = Append(@, [kind |-> "entry", reason |-> None]),
          !.used = TRUE]

\* Mutant: the entry leaves in_position as it was.
BuyStaysFlat(s, b) == EntryFill(s, b, FALSE)

\* The body of the entry, lines 187-205: in_position = True
Buy(s, b) == EntryFill(s, b, TRUE)

\* CHECK ENTRIES: the body of `elif not prev_above_sma and above_sma:`
CheckEntries(s, b) ==
    IF CooldownBlocks(s.last_exit_date, b.d, s.last_exit_was_eod)
    THEN [s EXCEPT !.prev_above_sma = b.above_sma, !.continued = TRUE]
    ELSE Buy(s, b)

\* Mutant: the EOD check does not latch the exit.
EodCheckNoLatch(s, b) ==
    LET s1 == [s EXCEPT !.prev_above_sma = b.above_sma]
    IN IF b.is_last_bar /\ b.d \in DOMAIN sma_by_date
             /\ b.d \in DOMAIN daily_close_by_date
       THEN [s1 EXCEPT !.prev_above_sma =
                AboveSma(daily_close_by_date[b.d], sma_by_date[b.d])]
       ELSE s1

\* Mutant: the EOD check latches the exit and leaves prev_above_sma alone.
EodCheckKeepsPrev(s, b) ==
    LET s1 == [s EXCEPT !.prev_above_sma = b.above_sma]
    IN IF b.is_last_bar /\ b.d \in DOMAIN sma_by_date
             /\ b.d \in DOMAIN daily_close_by_date
       THEN [s1 EXCEPT !.pending_eod_exit =
                IF s1.in_position
                   /\ ~AboveSma(daily_close_by_date[b.d], sma_by_date[b.d])
                THEN TRUE ELSE @]
       ELSE s1

\* prev_above_sma = above_sma, then the EOD check
EodCheck(s, b) ==
    LET s1 == [s EXCEPT !.prev_above_sma = b.above_sma]
    IN IF b.is_last_bar /\ b.d \in DOMAIN sma_by_date
             /\ b.d \in DOMAIN daily_close_by_date
       THEN LET eod_above == AboveSma(daily_close_by_date[b.d], sma_by_date[b.d])
            IN [s1 EXCEPT
                  !.pending_eod_exit = IF s1.in_position /\ ~eod_above
                                       THEN TRUE ELSE @,
                  !.prev_above_sma = eod_above]
       ELSE s1

\* The loop body from `is_first_bar = ...` to its end.
LoopBody(s, b) ==
    LET s1 == ClearPending(PendingEodExit(s, b), b)
        s2 == IF s1.in_position THEN CheckExits(s1, b)
              ELSE IF EntrySignal(s1.prev_above_sma, b.above_sma)
                   THEN CheckEntries(s1, b)
                   ELSE s1
    IN IF s2.continued THEN s2 ELSE EodCheck(s2, b)

\* -------------------------------------------------------------- actions

\* A truth value as the variable prev_above_sma holds it (None, or these).
Py(x) == IF x THEN "True" ELSE "False"

\* Mutant: the signal state starts as a truth value.
InitialPrevFalse == "False"

\* prev_above_sma = None
InitialPrev == None

\* The iteration's locals.  path names the branch the iteration took,
\* prev_before and pos_before hold prev_above_sma and in_position as the
\* iteration found them, cooldown tells that the entry was suppressed; the
\* prices of the trade instrument's bar are kept when a line that ran used
\* them (the position was open at CHECK EXITS, or a fill was executed)
\* and are 0 otherwise; qqq_price is kept as above_sma.
NoLocals ==
    [ts |-> 0, d |-> NoDate, path |-> None,
     tqqq_close |-> 0, tqqq_high |-> 0, tqqq_low |-> 0,
     above_sma |-> FALSE, is_first_bar |-> FALSE, is_last_bar |-> TRUE,
     prev_before |-> None, pos_before |-> FALSE, cooldown |-> FALSE,
     fixed_stop |-> NaN, trailing_stop |-> NaN, active_stop |-> NaN,
     exit_reason |-> None, raw_exit_price |-> NaN, acts |-> <<>>]

\* run_backtest at the top of its loop, with args.slippage and
\* args.commission drawn from frictions.
StartBacktest(frictions) ==
    /\ sma_period = SmaPeriod
    /\ \E f \in frictions : slippage = f[1] /\ commission = f[2]
    /\ qqq_daily \in [1..NumDays -> SignalPrices]
    /\ sma_by_date = SmaByDate(qqq_daily, sma_period)
    /\ daily_close_by_date = DailyCloseByDate(qqq_daily, sma_period)
    /\ capital = RInt(StartCapital)
    /\ shares = RInt(0)
    /\ entry_price = RInt(0)
    /\ highest = RInt(0)
    /\ last_exit_date = NoDate
    /\ last_exit_was_eod = FALSE
    /\ trades = <<>>
    /\ in_position = FALSE
    /\ prev_above_sma = InitialPrev
    /\ pending_eod_exit = FALSE
    /\ total_slippage_cost = RInt(0)
    /\ total_commission_cost = RInt(0)
    /\ loc = NoLocals
    /\ pc = "loop"
    /\ win_rate = NaN

InitBacktest == StartBacktest(Frictions)

\* args.commission is no less than args.capital.
InitUnfunded == StartBacktest(UnfundedFrictions)

\* backtest.py's variables while backtest_v3 runs: not started.
IdleBacktest ==
    /\ sma_period = SmaPeriod /\ slippage = 0 /\ commission = 0
    /\ qqq_daily = <<>> /\ sma_by_date = <<>> /\ daily_close_by_date = <<>>
    /\ capital = RInt(StartCapital) /\ shares = RInt(0)
    /\ entry_price = RInt(0) /\ highest = RInt(0)
    /\ last_exit_date = NoDate /\ last_exit_was_eod = FALSE
    /\ trades = <<>> /\ in_position = FALSE /\ prev_above_sma = None
    /\ pending_eod_exit = FALSE
    /\ total_slippage_cost = RInt(0) /\ total_commission_cost = RInt(0)
    /\ loc = NoLocals /\ pc = "idle" /\ win_rate = NaN

\* The next timestamp of common_ts after the one just processed.  Its date
\* is the same date unless that bar was its date's last, and then the next
\* date; the first bar of common_ts falls on any date of the daily series.
NextTs == loc.ts + 1

NextDates ==
    IF loc.ts = 0 THEN 1..NumDays
    ELSE IF loc.is_last_bar THEN {loc.d + 1} \cap (1..NumDays)
    ELSE {loc.d}

HasNextBar == pc = "loop" /\ NextTs <= MaxBars

\* The last bar of common_ts is the last bar of its date.
LastBarChoices == IF NextTs = MaxBars THEN {TRUE} ELSE BOOLEAN

\* if not prev_sma_dates: continue
SkipBar ==
    /\ HasNextBar
    /\ \E d \in NextDates, last \in LastBarChoices :
         /\ PrevSmaDates(sma_by_date, d) = {}
         /\ loc' = [NoLocals EXCEPT !.ts = NextTs, !.d = d, !.path = "skip",
                                    !.is_first_bar = loc.is_last_bar,
                                    !.is_last_bar = last,
                                    !.prev_before = prev_above_sma,
                                    !.pos_before = in_position]
    /\ UNCHANGED <<cfgvars, simvars, pc, reportvars, rerunvars, v3vars, v5vars>>

\* The rows of qqq_15 and tqqq_15 at ts, as the iteration reads them.
ReadBar(d, q, c, h, l, last) ==
    LET sma_val == sma_by_date[SetMax(PrevSmaDates(sma_by_date, d))]
    IN [NoLocals EXCEPT !.ts = NextTs, !.d = d,
                        !.tqqq_close = c, !.tqqq_high = h, !.tqqq_low = l,
                        !.above_sma = AboveSma(q, sma_val),
                        !.is_first_bar = loc.is_last_bar,
                        !.is_last_bar = last,
                        !.prev_before = prev_above_sma,
                        !.pos_before = in_position]

\* if prev_above_sma is None: prev_above_sma = above_sma; continue
InitSignal ==
    /\ HasNextBar
    /\ prev_above_sma = None
    /\ \E d \in NextDates, q \in SignalPrices, c, h, l \in TradePrices,
          last \in LastBarChoices :
         /\ PrevSmaDates(sma_by_date, d) # {}
         /\ l <= c /\ c <= h
         /\ \E b \in {ReadBar(d, q, c, h, l, last)} :
               /\ loc' = [b EXCEPT !.path = "init", !.tqqq_close = 0,
                                   !.tqqq_high = 0, !.tqqq_low = 0]
               /\ prev_above_sma' = Py(b.above_sma)
    /\ UNCHANGED <<cfgvars, capital, shares, entry_price, highest,
                   last_exit_date, last_exit_was_eod, trades, in_position,
                   pending_eod_exit, total_slippage_cost,
                   total_commission_cost, pc, reportvars, rerunvars,
                   v3vars, v5vars>>

\* One full iteration of the loop body.
TradeBar ==
    /\ HasNextBar
    /\ prev_above_sma # None
    /\ \E d \in NextDates, q \in SignalPrices, c, h, l \in TradePrices,
          last \in LastBarChoices :
         /\ PrevSmaDates(sma_by_date, d) # {}
         /\ l <= c /\ c <= h
         /\ \E b \in {ReadBar(d, q, c, h, l, last)} :
            \E s \in {LoopBody(SimState, b)} :
               /\ loc' = BodyLocals(b, s)
               /\ capital' = s.capital
               /\ shares' = s.shares
               /\ entry_price' = s.entry_price
               /\ highest' = s.highest
               /\ last_exit_date' = s.last_exit_date
               /\ last_exit_was_eod' = s.last_exit_was_eod
               /\ trades' = s.trades
               /\ in_position' = s.in_position
               /\ prev_above_sma' = Py(s.prev_above_sma)
               /\ pending_eod_exit' = s.pending_eod_exit
               /\ total_slippage_cost' = s.total_slippage_cost
               /\ total_commission_cost' = s.total_commission_cost
    /\ UNCHANGED <<cfgvars, pc, reportvars, rerunvars, v3vars, v5vars>>

\* Mutant: the last record is closed again whatever its state.
NeedsCloseWhenever(pos, trs) == Len(trs) > 0

\* Mutant: the test of the last record's exit_dt is inverted.
NeedsCloseInverted(pos, trs) ==
    pos /\ Len(trs) > 0 /\ trs[Len(trs)].exit_dt # NoTs

\* if in_position and trades and trades[-1]["exit_dt"] is None
NeedsClose(pos, trs) ==
    pos /\ Len(trs) > 0 /\ trs[Len(trs)].exit_dt = NoTs

\* Close open position: lines 219-231, with the last row of tqqq_15.
CloseOpenPosition(s, last_ts, last_price) ==
    IF NeedsClose(s.in_position, s.trades)
    THEN LET fill_price == apply_slippage(last_price, "sell", slippage)
             slip_cost == RMul(s.shares, RAbs(RSub(last_price, fill_price)))
             pnl == RMul(s.shares, RSub(fill_price, s.entry_price))
         IN [s EXCEPT
               !.total_slippage_cost = RAdd(@, slip_cost),
               !.trades = [@ EXCEPT ![Len(s.trades)] =
                   [@ EXCEPT !.exit_dt = last_ts,
                             !.exit_price = fill_price,
                             !.raw_exit_price = last_price,
                             !.pnl = Round2(pnl),
                             !.exit_reason = "OPEN",
                             !.slippage_cost = Round2(slip_cost),
                             !.commission = 0]],
               !.capital = RMul(s.shares, fill_price)]
    ELSE s

\* Close open position: the code after the loop, then return.  The last
\* row of tqqq_15 is the last bar processed, or a later bar that qqq_15
\* lacks or that the date filter cut from common_ts.
CloseOpen ==
    /\ pc = "loop"
    /\ loc.is_last_bar
    /\ pc' = "done"
    /\ \E later \in IF NeedsClose(in_position, trades) THEN BOOLEAN ELSE {FALSE},
          c \in IF NeedsClose(in_position, trades) THEN TradePrices
                                                  ELSE {loc.tqqq_close},
          ld \in {loc.d, loc.d + 1} :
         /\ ~later => (c = loc.tqqq_close /\ ld = loc.d)
         /\ \E s \in {CloseOpenPosition(SimState,
                         IF later THEN Ts(ld, loc.ts + 1) ELSE Ts(loc.d, loc.ts),
                         RInt(c))} :
               /\ total_slippage_cost' = s.total_slippage_cost
               /\ trades' = s.trades
               /\ capital' = s.capital
    /\ UNCHANGED <<cfgvars, shares, entry_price, highest, last_exit_date,
                   last_exit_was_eod, in_position, prev_above_sma,
                   pending_eod_exit, total_commission_cost, loc, reportvars,
                   rerunvars, v3vars, v5vars>>

\* ------------------------------------------------------ print_report

\* wins = [t for t in trades if t['pnl'] and t['pnl'] > 0]
Wins(trs) == {i \in 1..Len(trs) : trs[i].pnl # NaN /\ trs[i].pnl.n > 0}

\* closed = [t for t in trades if t['exit_reason'] != 'OPEN']
Closed(trs) == {i \in 1..Len(trs) : trs[i].exit_reason # "OPEN"}

\* len(wins)/max(len(closed),1)*100
WinRate(trs) ==
    LET n == Cardinality(Closed(trs))
    IN Rat(100 * Cardinality(Wins(trs)), IF n < 1 THEN 1 ELSE n)

\* compute_yearly_breakdown: running_capital after the first k records;
\* a record with pnl None or exit_dt None is passed over.
RECURSIVE RunningCapital(_, _, _)
RunningCapital(trs, starting_capital, k) ==
    IF k = 0 THEN RInt(starting_capital)
    ELSE LET before == RunningCapital(trs, starting_capital, k - 1)
         IN IF trs[k].pnl = NaN \/ trs[k].exit_dt = NoTs THEN before
            ELSE RAdd(before, trs[k].pnl)

\* yearly[year]['end_bal'] of the last year with a trade
LastEndBal(trs, starting_capital) ==
    RunningCapital(trs, starting_capital, Len(trs))

\* main: print_report(trades, capital, total_slip, total_comm, args)
PrintReport ==
    /\ pc = "done"
    /\ pc' = "reported"
    /\ win_rate' = WinRate(trades)
    /\ UNCHANGED <<cfgvars, simvars, loc, rerunvars, v3vars, v5vars>>

\* ------------------------------------- run_backtest called a second time

\* <<close, high, low>> of the trade instrument's bars in the series the
\* two calls share.
RerunTradeBars == {<<34, 34, 34>>, <<37, 40, 34>>, <<40, 40, 40>>}

\* The date the shared series starts on: the last date without a previous
\* SMA value, or the first with one.
RerunFirstDates == {SmaPeriod, SmaPeriod + 1}

\* The locals run_backtest creates before its loop (lines 87-100), with
\* the iteration's own locals unassigned.
FreshLocals ==
    [capital |-> RInt(StartCapital), shares |-> RInt(0),
     entry_price |-> RInt(0), highest |-> RInt(0),
     last_exit_date |-> NoDate, last_exit_was_eod |-> FALSE,
     trades |-> <<>>, in_position |-> FALSE, prev_above_sma |-> FALSE,
     pending_eod_exit |-> FALSE,
     total_slippage_cost |-> RInt(0), total_commission_cost |-> RInt(0),
     fixed_stop |-> NaN, trailing_stop |-> NaN, active_stop |-> NaN,
     exit_reason |-> None, raw_exit_price |-> NaN,
     acts |-> <<>>, continued |-> FALSE, used |-> FALSE]

\* A call at its first line: sim holds the locals, prev holds
\* prev_above_sma with its None, k counts the bars of common_ts consumed.
RunStart == [sim |-> FreshLocals, prev |-> InitialPrev, k |-> 0]

\* Mutant: the locals of the previous call survive into the next one.
SecondRunCarries(previous) == [previous EXCEPT !.k = 0]

\* Every call of run_backtest assigns its locals anew, whatever an earlier
\* call left behind.
SecondRunStart(previous) == RunStart

\* The locals as an iteration finds them: what it assigns itself is unset.
IterationStart(r) ==
    [r.sim EXCEPT !.prev_above_sma = (r.prev = "True"),
                  !.fixed_stop = NaN, !.trailing_stop = NaN,
                  !.active_stop = NaN, !.exit_reason = None,
                  !.raw_exit_price = NaN, !.acts = <<>>,
                  !.continued = FALSE, !.used = FALSE]

\* The rows of qqq_15 and tqqq_15 at bar k+1 of the series.
RunLocals(r, bar) ==
    LET sma_val == sma_by_date[SetMax(PrevSmaDates(sma_by_date, bar.d))]
    IN [NoLocals EXCEPT !.ts = r.k + 1, !.d = bar.d,
                        !.tqqq_close = bar.c, !.tqqq_high = bar.h,
                        !.tqqq_low = bar.l,
                        !.above_sma = AboveSma(bar.q, sma_val),
                        !.is_first_bar = bar.first,
                        !.is_last_bar = bar.last]

\* One iteration of `for ts in common_ts` as a function of the call's
\* locals and the bar.
IterateBar(r, bar) ==
    IF PrevSmaDates(sma_by_date, bar.d) = {}
    THEN [r EXCEPT !.k = @ + 1]
    ELSE IF r.prev = None
    THEN [r EXCEPT !.k = @ + 1, !.prev = Py(RunLocals(r, bar).above_sma)]
    ELSE LET s == LoopBody(IterationStart(r), RunLocals(r, bar))
         IN [sim |-> s, prev |-> Py(s.prev_above_sma), k |-> r.k + 1]

\* The code after the loop; in the shared series the last row of tqqq_15
\* is the last bar of common_ts.
FinishRun(r, series) ==
    IF series = <<>> THEN r
    ELSE LET last == series[Len(series)]
         IN [r EXCEPT !.sim = CloseOpenPosition(r.sim,
                                  Ts(last.d, Len(series)), RInt(last.c))]

\* return trades, capital, total_slippage_cost, total_commission_cost
Returned(r) ==
    <<r.sim.trades, r.sim.capital, r.sim.total_slippage_cost,
      r.sim.total_commission_cost>>

\* No frame.
NoFrame == [index |-> <<>>, columns |-> {}]

\* qqq_daily as load_data returns it: the rows in the order of the file,
\* here ascending or descending by date, and the column close.
LoadedDaily ==
    {[index |-> [i \in 1..NumDays |-> i], columns |-> {"close"}],
     [index |-> [i \in 1..NumDays |-> NumDays + 1 - i], columns |-> {"close"}]}

\* The index in ascending order.
SortedIndex(index) ==
    LET dates == {index[i] : i \in DOMAIN index}
    IN [i \in 1..Len(index) |->
          CHOOSE x \in dates : Cardinality({y \in dates : y < x}) = i - 1]

\* qqq_daily = qqq_daily.sort_index(); qqq_daily["sma"] = ...: the frame
\* the local name is bound to after lines 58-59.
LocalAfterSetup(frame) ==
    [index |-> SortedIndex(frame.index), columns |-> frame.columns \cup {"sma"}]

\* Mutant: the frame is sorted in place, the local name stays bound to the
\* caller's object and the column is added to it.
CallerAfterSetupInPlace(frame) == LocalAfterSetup(frame)

\* The caller's frame after lines 58-59: sort_index() returns a new frame,
\* the local name is rebound to it and the column is added to the new frame.
CallerAfterSetup(frame) == frame

\* No second call is made.
IdleRerun ==
    /\ bar_series = <<>>
    /\ run_one = RunStart
    /\ run_two = RunStart
    /\ rerun_pc = "idle"
    /\ caller_daily = NoFrame
    /\ local_daily = NoFrame

\* The caller has loaded the frames and is about to call run_backtest.
StartRerun ==
    /\ bar_series = <<>>
    /\ run_one = RunStart
    /\ run_two = RunStart
    /\ rerun_pc = "start"
    /\ caller_daily \in LoadedDaily
    /\ local_daily = NoFrame

\* The first call runs up to its loop.
FirstRunStart ==
    /\ rerun_pc = "start"
    /\ rerun_pc' = "first"
    /\ caller_daily' = CallerAfterSetup(caller_daily)
    /\ local_daily' = LocalAfterSetup(caller_daily)
    /\ UNCHANGED <<cfgvars, simvars, loc, pc, reportvars, bar_series,
                   run_one, run_two, v3vars, v5vars>>

\* The bars that can follow the series read so far.
RerunNextBars ==
    LET n == Len(bar_series)
        dates == IF n = 0 THEN RerunFirstDates
                 ELSE IF bar_series[n].last
                      THEN {bar_series[n].d + 1} \cap (1..NumDays)
                      ELSE {bar_series[n].d}
    IN {[d |-> d, q |-> q, c |-> t[1], h |-> t[2], l |-> t[3],
         first |-> (n = 0 \/ bar_series[n].last), last |-> last] :
          d \in dates, q \in SignalPrices, t \in RerunTradeBars,
          last \in IF n + 1 = RerunBars THEN {TRUE} ELSE BOOLEAN}

\* The first call reads the next bar of the frames.
FirstRunBar ==
    /\ rerun_pc = "first"
    /\ Len(bar_series) < RerunBars
    /\ \E bar \in RerunNextBars :
         /\ bar_series' = Append(bar_series, bar)
         /\ run_one' = IterateBar(run_one, bar)
    /\ UNCHANGED <<cfgvars, simvars, loc, pc, reportvars, run_two, rerun_pc,
                   caller_daily, local_daily, v3vars, v5vars>>

\* The first call returns and the second call runs up to its loop.
FirstRunEnd ==
    /\ rerun_pc = "first"
    /\ bar_series # <<>>
    /\ bar_series[Len(bar_series)].last
    /\ run_one' = FinishRun(run_one, bar_series)
    /\ run_two' = SecondRunStart(run_one')
    /\ rerun_pc' = "second"
    /\ caller_daily' = CallerAfterSetup(caller_daily)
    /\ local_daily' = LocalAfterSetup(caller_daily)
    /\ UNCHANGED <<cfgvars, simvars, loc, pc, reportvars, bar_series, v3vars, v5vars>>

\* The second call reads the same frames, bar by bar.
SecondRunBar ==
    /\ rerun_pc = "second"
    /\ run_two.k < Len(bar_series)
    /\ run_two' = IterateBar(run_two, bar_series[run_two.k + 1])
    /\ UNCHANGED <<cfgvars, simvars, loc, pc, reportvars, bar_series,
                   run_one, rerun_pc, caller_daily, local_daily,
                   v3vars, v5vars>>

\* The second call returns.
SecondRunEnd ==
    /\ rerun_pc = "second"
    /\ run_two.k = Len(bar_series)
    /\ run_two' = FinishRun(run_two, bar_series)
    /\ rerun_pc' = "both"
    /\ UNCHANGED <<cfgvars, simvars, loc, pc, reportvars, bar_series,
                   run_one, caller_daily, local_daily, v3vars, v5vars>>

\* ------------------------------------------ backtest_v3.run_backtest

\* `if position:` is false for None
NoPosition ==
    [entry_date |-> NoDate, entry_price |-> 0, shares |-> NaN,
     high_since_entry |-> 0, entry_reason |-> None]

\* qqq['close'] > qqq['sma']: a comparison with NaN is False
V3Above(close, sma) == sma # NaN /\ RLt(sma, RInt(close))

\* The window of the rolling mean after one more close.
PushClose(window, close, period) ==
    LET w == Append(window, close)
    IN IF Len(w) > period THEN Tail(w) ELSE w

\* qqq['close'].rolling(window=sma_period).mean() at the window's last row
WindowMean(window, period) ==
    IF Len(window) < period THEN NaN
    ELSE Rat(SumCloses(window, 1, Len(window)), period)

\* entry_price * (1 - fixed_stop_pct/100)
V3FixedStop(price, fixed_stop_pct) ==
    RMul(RInt(price), Rat(100 - fixed_stop_pct, 100))

\* high_since_entry * (1 - trailing_stop_pct/100)
V3TrailingStop(high, trailing_stop_pct) ==
    RMul(RInt(high), Rat(100 - trailing_stop_pct, 100))

\* effective_stop = max(fixed_stop, trailing_stop)
EffectiveStop(fixed_stop, trailing_stop) == RMax(fixed_stop, trailing_stop)

\* Mutant: a tie is labelled FIXED.
StopTypeStrict(fixed_stop, trailing_stop) ==
    IF RLt(fixed_stop, trailing_stop) THEN "TRAIL" ELSE "FIXED"

\* stop_type = 'TRAIL' if trailing_stop >= fixed_stop else 'FIXED'
StopType(fixed_stop, trailing_stop) ==
    IF RLe(fixed_stop, trailing_stop) THEN "TRAIL" ELSE "FIXED"

\* if tqqq_close <= effective_stop
V3StopHit(tqqq_close, effective_stop) == RLe(RInt(tqqq_close), effective_stop)

\* Mutant: the day's high replaces the high since entry.
IMaxLast(a, b) == b

\* max(position['high_since_entry'], tqqq_high)
IMax(a, b) == IF a < b THEN b ELSE a

\* The locals of an iteration of backtest_v3.  path names the branch taken
\* ("locked", "held", "flat"); pos_entry_price and pos_high hold the
\* position's entry_price and high_since_entry as the stop was evaluated;
\* act is the fill executed, if any.  tqqq_low is the low of the row, which
\* the iteration does not read.
V3NoLocals ==
    [i |-> 0, today |-> 1, path |-> None, above_sma_today |-> FALSE,
     tqqq_open |-> 0, tqqq_high |-> 0, tqqq_low |-> 0, tqqq_close |-> 0,
     fixed_stop |-> NaN, trailing_stop |-> NaN, effective_stop |-> NaN,
     stop_type |-> None, pos_entry_price |-> 0, pos_high |-> 0, act |-> None]

\* The state of backtest_v3 as one value.
V3State ==
    [trades |-> v3_trades, portfolio |-> portfolio, position |-> position,
     signal_memory |-> signal_memory, t1_locked_until |-> t1_locked_until,
     reentry_count |-> reentry_count, loc |-> V3NoLocals]

\* trades.append({...}) of an exit, position = None, the T+1 lock
V3Exit(st, r, exit_price, reason, fixed_stop, trailing_stop, memory) ==
    LET pos == st.position
        pnl == RMul(RInt(exit_price - pos.entry_price), pos.shares)
        pnl_pct == RMul(RSub(Rat(exit_price, pos.entry_price), RInt(1)), RInt(100))
        pf == RAdd(st.portfolio, pnl)
    IN [st EXCEPT
          !.portfolio = pf,
          !.trades = Append(@,
              [entry_date |-> pos.entry_date, entry_price |-> pos.entry_price,
               exit_date |-> r.today, exit_price |-> exit_price,
               pnl |-> pnl, pnl_pct |-> pnl_pct,
               days |-> r.today - pos.entry_date,
               exit_reason |-> reason, entry_reason |-> pos.entry_reason,
               portfolio |-> pf,
               fixed_stop |-> fixed_stop, trailing_stop |-> trailing_stop]),
          !.signal_memory = memory,
          !.position = NoPosition,
          !.t1_locked_until = r.today + 1,
          !.loc.act = "exit"]

\* position = {...} of an entry at the open
V3Enter(st, r, reason) ==
    [st EXCEPT
       !.position = [entry_date |-> r.today, entry_price |-> r.tqqq_open,
                     shares |-> RDiv(st.portfolio, RInt(r.tqqq_open)),
                     high_since_entry |-> r.tqqq_high,
                     entry_reason |-> reason],
       !.loc.act = "entry"]

\* The body of `if position:`
V3Held(st, r, above_today, above_yest) ==
    LET high == IMax(st.position.high_since_entry, r.tqqq_high)
        fixed_stop == V3FixedStop(st.position.entry_price, V3_FIXED_STOP_PCT)
        trailing_stop == V3TrailingStop(high, V3_TRAILING_STOP_PCT)
        effective_stop == EffectiveStop(fixed_stop, trailing_stop)
        stop_type == StopType(fixed_stop, trailing_stop)
        s1 == [st EXCEPT !.position.high_since_entry = high,
                         !.loc.path = "held",
                         !.loc.fixed_stop = fixed_stop,
                         !.loc.trailing_stop = trailing_stop,
                         !.loc.effective_stop = effective_stop,
                         !.loc.stop_type = stop_type,
                         !.loc.pos_entry_price = st.position.entry_price,
                         !.loc.pos_high = high]
    IN IF V3StopHit(r.tqqq_close, effective_stop)
       THEN V3Exit(s1, r, r.tqqq_close, stop_type, fixed_stop, trailing_stop,
                   above_today)
       ELSE IF ~above_today /\ above_yest
       THEN V3Exit(s1, r, r.tqqq_open, "SMA", fixed_stop, trailing_stop, FALSE)
       ELSE s1

\* Mutant: a day below the SMA leaves the signal memory set.
V3FlatKeepsMemory(st, r, above_today, above_yest) ==
    LET s0 == [st EXCEPT !.loc.path = "flat"]
    IN IF s0.signal_memory /\ above_today
       THEN [V3Enter(s0, r, "REENT") EXCEPT
               !.signal_memory = FALSE, !.reentry_count = @ + 1]
       ELSE IF above_today /\ ~above_yest
            THEN V3Enter(s0, r, "CROSS")
            ELSE s0

\* The body of the `else:` of `if position:`
V3Flat(st, r, above_today, above_yest) ==
    LET s0 == [st EXCEPT !.loc.path = "flat"]
    IN IF s0.signal_memory /\ above_today
       THEN [V3Enter(s0, r, "REENT") EXCEPT
               !.signal_memory = FALSE, !.reentry_count = @ + 1]
       ELSE LET s1 == [s0 EXCEPT !.signal_memory = FALSE]
            IN IF above_today /\ ~above_yest
               THEN V3Enter(s1, r, "CROSS")
               ELSE s1

\* if t1_locked_until and today_date <= t1_locked_until
V3Locked(locked_until, today) == locked_until # NoDate /\ today <= locked_until

\* One iteration of `for i in range(1, len(qqq))`.
V3Body(st, r, above_today, above_yest) ==
    IF V3Locked(st.t1_locked_until, r.today)
    THEN IF st.position # NoPosition
         THEN [st EXCEPT !.loc.path = "locked",
                 !.position.high_since_entry = IMax(@, r.tqqq_high)]
         ELSE [st EXCEPT !.loc.path = "locked"]
    ELSE IF st.position # NoPosition
         THEN V3Held(st, r, above_today, above_yest)
         ELSE V3Flat(st, r, above_today, above_yest)

\* The frames start at a row 0 that the loop does not visit; its sma is
\* the mean of the closes before the backtest start, if there are enough.
InitDaily ==
    /\ \E hist \in UNION {[1..k -> DailySignalPrices] : k \in 1..SmaPeriod} :
          /\ qqq_window = hist
          /\ qqq_prev = [close |-> hist[Len(hist)],
                         sma |-> WindowMean(hist, SmaPeriod)]
    /\ v3_trades = <<>>
    /\ portfolio = RInt(V3Capital)
    /\ position = NoPosition
    /\ signal_memory = FALSE
    /\ t1_locked_until = NoDate
    /\ reentry_count = 0
    /\ v3_loc = V3NoLocals
    /\ v3_pc = "loop"

\* backtest_v3's variables while backtest.py runs: not started.
IdleDaily ==
    /\ qqq_window = <<>> /\ qqq_prev = [close |-> 0, sma |-> NaN]
    /\ v3_trades = <<>> /\ portfolio = RInt(V3Capital)
    /\ position = NoPosition /\ signal_memory = FALSE
    /\ t1_locked_until = NoDate /\ reentry_count = 0
    /\ v3_loc = V3NoLocals /\ v3_pc = "idle"

backtestvars == <<cfgvars, simvars, loc, pc, reportvars, rerunvars>>

\* The row's prices matter to the iteration: a position is open, or the
\* iteration opens one.  The prices of the other rows are left out.
PricesRead(today, above_today, above_yest) ==
    \/ position # NoPosition
    \/ /\ ~V3Locked(t1_locked_until, today)
       /\ above_today
       /\ (signal_memory \/ ~above_yest)

DailyBar ==
    /\ v3_pc = "loop"
    /\ v3_loc.i < MaxRows
    /\ \E gap \in DateGaps, qc \in DailySignalPrices :
       \E w \in {PushClose(qqq_window, qc, SmaPeriod)} :
       \E above_today \in {V3Above(qc, WindowMean(w, SmaPeriod))},
          above_yest \in {V3Above(qqq_prev.close, qqq_prev.sma)} :
       \E o, h, l, c \in
            IF PricesRead(v3_loc.today + gap, above_today, above_yest)
            THEN DailyTradePrices ELSE {0} :
         /\ l <= o /\ o <= h /\ l <= c /\ c <= h
         /\ \E r \in {[today |-> v3_loc.today + gap, qqq_close |-> qc,
                       sma_today |-> WindowMean(w, SmaPeriod),
                       tqqq_open |-> o, tqqq_high |-> h, tqqq_low |-> l,
                       tqqq_close |-> c]} :
            \E st \in {V3Body(V3State, r, above_today, above_yest)} :
               /\ qqq_window' = w
               /\ qqq_prev' = [close |-> r.qqq_close, sma |-> r.sma_today]
               /\ v3_trades' = st.trades
               /\ portfolio' = st.portfolio
               /\ position' = st.position
               /\ signal_memory' = st.signal_memory
               /\ t1_locked_until' = st.t1_locked_until
               /\ reentry_count' = st.reentry_count
               /\ v3_loc' = [st.loc EXCEPT
                     !.i = v3_loc.i + 1, !.today = r.today,
                     !.above_sma_today = above_today,
                     !.tqqq_open = o, !.tqqq_high = h,
                     !.tqqq_low = l, !.tqqq_close = c]
    /\ UNCHANGED <<v3_pc, backtestvars, v5vars>>

\* `if position:` after the loop, then return.
DailyFinish ==
    /\ v3_pc = "loop"
    /\ v3_pc' = "done"
    /\ IF position # NoPosition
       THEN LET exit_price == v3_loc.tqqq_close
                pnl == RMul(RInt(exit_price - position.entry_price), position.shares)
                pnl_pct == RMul(RSub(Rat(exit_price, position.entry_price),
                                     RInt(1)), RInt(100))
                pf == RAdd(portfolio, pnl)
            IN /\ portfolio' = pf
               /\ v3_trades' = Append(v3_trades,
                    [entry_date |-> position.entry_date,
                     entry_price |-> position.entry_price,
                     exit_date |-> v3_loc.today, exit_price |-> exit_price,
                     pnl |-> pnl, pnl_pct |-> pnl_pct,
                     days |-> v3_loc.today - position.entry_date,
                     exit_reason |-> "END",
                     entry_reason |-> position.entry_reason,
                     portfolio |-> pf,
                     fixed_stop |-> V3FixedStop(position.entry_price,
                                                V3_FIXED_STOP_PCT),
                     trailing_stop |-> V3TrailingStop(position.high_since_entry,
                                                      V3_TRAILING_STOP_PCT)])
       ELSE UNCHANGED <<portfolio, v3_trades>>
    /\ UNCHANGED <<qqq_window, qqq_prev, position, signal_memory,
                   t1_locked_until, reentry_count, v3_loc, backtestvars, v5vars>>

\* ------------------------------------ sma50_v5.py (technical-backtesting)

\* Number of bars of common_ts the script iterates over.
V5Bars == 5
\* FIXED_STOP_PCT = 0.075 and TRAILING_STOP_PCT = 0.15, in permille
V5_FIXED_STOP_PCT == 75
V5_TRAILING_STOP_PCT == 150
\* capital at the start, scaled down
V5Capital == 1000
\* Prices of the trade instrument's 15-minute bars.
V5TradePrices == {34, 40}

\* Python's truth value of pending_eod_exit, which holds False, True or
\* the string "entry".
Truthy(p) == p # "False"

\* isinstance(pending_eod_exit, str)
IsStr(p) == p = "entry"

V5NoLocals ==
    [i |-> 0, d |-> NoDate, is_market_open |-> FALSE, is_last_bar |-> FALSE,
     path |-> "none", above_sma |-> FALSE,
     tqqq_close |-> 0, tqqq_high |-> 0, tqqq_low |-> 0,
     eod_exit |-> FALSE, eod_entry |-> FALSE, exit_reason |-> None,
     entered |-> FALSE, latched |-> FALSE]

\* The script's globals, and what the iteration in progress has done.
V5State ==
    [capital |-> v5_capital, shares |-> v5_shares,
     entry_price |-> v5_entry_price, highest |-> v5_highest,
     last_exit_date |-> v5_last_exit_date, trades |-> v5_trades,
     in_position |-> v5_in_position, prev_above_sma |-> v5_prev_above_sma,
     eod_above_sma |-> v5_eod_above_sma,
     pending_eod_exit |-> v5_pending_eod_exit,
     path |-> "body", eod_exit |-> FALSE, eod_entry |-> FALSE,
     exit_reason |-> None, entered |-> FALSE, latched |-> FALSE]

\* trades[-1].update({exit_dt, exit_price, pnl, exit_reason}) and the
\* assignments that follow it.
V5Exit(st, b, exit_price, reason) ==
    LET pnl == RMul(st.shares, RSub(exit_price, st.entry_price))
        n == Len(st.trades)
    IN [st EXCEPT
          !.capital = RMul(st.shares, exit_price),
          !.trades = [@ EXCEPT ![n] = [@ EXCEPT
                         !.exit_dt = Ts(b.d, b.i),
                         !.exit_price = exit_price,
                         !.pnl = Round2(pnl),
                         !.exit_reason = reason]],
          !.in_position = FALSE,
          !.shares = RInt(0),
          !.last_exit_date = b.d]

\* entry at the bar's close: trades.append({...}), in_position = True
V5Enter(st, b) ==
    [st EXCEPT
       !.entry_price = RInt(b.tqqq_close),
       !.shares = RDiv(st.capital, RInt(b.tqqq_close)),
       !.highest = RInt(b.tqqq_high),
       !.trades = Append(@, [trade_num |-> Len(st.trades) + 1,
                             entry_dt |-> Ts(b.d, b.i),
                             entry_price |-> RInt(b.tqqq_close),
                             exit_dt |-> NoTs, exit_price |-> NaN,
                             pnl |-> NaN, exit_reason |-> None]),
       !.in_position = TRUE]

\* CHECK: Pending EOD exit at market open
V5PendingExit(st, b) ==
    IF Truthy(st.pending_eod_exit) /\ b.is_market_open /\ st.in_position
    THEN [V5Exit(st, b, RInt(b.tqqq_close), "SMA EXIT (EOD)") EXCEPT
            !.pending_eod_exit = "False", !.eod_exit = TRUE]
    ELSE st

\* CHECK: Pending EOD entry at market open
V5PendingEntry(st, b) ==
    IF ~st.in_position /\ st.pending_eod_exit = "entry" /\ b.is_market_open
    THEN LET s1 == IF st.last_exit_date # b.d
                   THEN [V5Enter(st, b) EXCEPT !.eod_entry = TRUE]
                   ELSE st
         IN [s1 EXCEPT !.pending_eod_exit = "False"]
    ELSE st

\* if isinstance(pending_eod_exit, str): pending_eod_exit = False
V5ClearStrLatch(st) ==
    IF IsStr(st.pending_eod_exit)
    THEN [st EXCEPT !.pending_eod_exit = "False"]
    ELSE st

\* CHECK EXITS (intraday), the branch taken with a position
V5CheckExits(st, b) ==
    LET high == UpdateHighest(st.highest, b.tqqq_high)
        fixed_stop == FixedStop(st.entry_price, V5_FIXED_STOP_PCT)
        trailing_stop == TrailingStop(high, V5_TRAILING_STOP_PCT)
        active_stop == ActiveStop(fixed_stop, trailing_stop)
        s1 == [st EXCEPT !.highest = high]
    IN IF StopHit(b.tqqq_low, active_stop)
       THEN [V5Exit(s1, b, active_stop, "STOP") EXCEPT
               !.exit_reason = "STOP"]
       ELSE IF st.prev_above_sma = "True" /\ ~b.above_sma
       THEN [V5Exit(s1, b, RInt(b.tqqq_close), "SMA EXIT") EXCEPT
               !.exit_reason = "SMA EXIT"]
       ELSE s1

\* `if in_position: ... elif not prev_above_sma and above_sma: ...`, then
\* prev_above_sma = above_sma.  The T+1 branch ends the iteration.
V5Intraday(st, b) ==
    IF st.in_position
    THEN [V5CheckExits(st, b) EXCEPT !.prev_above_sma = Py(b.above_sma)]
    ELSE IF st.prev_above_sma # "True" /\ b.above_sma
    THEN IF st.last_exit_date = b.d
         THEN [st EXCEPT !.prev_above_sma = Py(b.above_sma),
                         !.path = "cooldown"]
         ELSE [V5Enter(st, b) EXCEPT !.prev_above_sma = Py(b.above_sma),
                                     !.entered = TRUE]
    ELSE [st EXCEPT !.prev_above_sma = Py(b.above_sma)]

\* End of day check: last bar of the day
V5EodCheck(st, b) ==
    IF b.is_last_bar /\ b.daily_sma # NaN
    THEN LET new_eod == RLt(b.daily_sma, RInt(b.daily_close))
             s1 == IF st.eod_above_sma = None THEN st
                   ELSE IF st.in_position /\ st.eod_above_sma = "True"
                           /\ ~new_eod
                   THEN [st EXCEPT !.pending_eod_exit = "True",
                                   !.latched = TRUE]
                   ELSE IF ~st.in_position /\ st.eod_above_sma = "False"
                           /\ new_eod
                   THEN [st EXCEPT !.pending_eod_exit = "entry",
                                   !.latched = TRUE]
                   ELSE st
         IN [s1 EXCEPT !.eod_above_sma = Py(new_eod),
                       !.prev_above_sma = Py(new_eod)]
    ELSE st

\* One iteration of `for ts in common_ts:` past the two early `continue`s.
V5Body(st, b) ==
    LET s1 == V5ClearStrLatch(V5PendingEntry(V5PendingExit(st, b), b))
        s2 == V5Intraday(s1, b)
    IN IF s2.path = "cooldown" THEN s2 ELSE V5EodCheck(s2, b)

\* The globals before the loop.  The daily frame has SmaPeriod-1 or
\* SmaPeriod closes before the first date of common_ts; eod_above_sma is
\* set from the last daily row before the hard-coded start date, if any.
InitV5 ==
    /\ \E hist \in UNION {[1..k -> SignalPrices] :
                              k \in (SmaPeriod - 1)..SmaPeriod} :
          /\ v5_window = hist
          /\ v5_eod_above_sma \in
                {None} \cup
                (IF Len(hist) = SmaPeriod
                 THEN {Py(RLt(WindowMean(hist, SmaPeriod),
                              RInt(hist[Len(hist)])))}
                 ELSE {})
    /\ v5_capital = RInt(V5Capital)
    /\ v5_shares = RInt(0)
    /\ v5_entry_price = RInt(0)
    /\ v5_highest = RInt(0)
    /\ v5_last_exit_date = NoDate
    /\ v5_trades = <<>>
    /\ v5_in_position = FALSE
    /\ v5_prev_above_sma = None
    /\ v5_pending_eod_exit = "False"
    /\ v5_loc = V5NoLocals
    /\ v5_pc = "loop"

\* sma50_v5's variables while another program runs: not started.
IdleV5 ==
    /\ v5_window = <<>> /\ v5_capital = RInt(V5Capital)
    /\ v5_shares = RInt(0) /\ v5_entry_price = RInt(0)
    /\ v5_highest = RInt(0) /\ v5_last_exit_date = NoDate
    /\ v5_trades = <<>> /\ v5_in_position = FALSE
    /\ v5_prev_above_sma = None /\ v5_eod_above_sma = None
    /\ v5_pending_eod_exit = "False"
    /\ v5_loc = V5NoLocals /\ v5_pc = "idle"

othervars == <<backtestvars, v3vars>>

\* The next timestamp of common_ts opens a session when the one before
\* closed one; only a session's first bar can be the 09:30 bar, and the
\* last timestamp of common_ts is the last bar of its day.
V5FirstOfDay == v5_loc.i = 0 \/ v5_loc.is_last_bar

V5Date == IF V5FirstOfDay THEN v5_loc.d + 1 ELSE v5_loc.d

V5LastChoices == IF v5_loc.i + 1 = V5Bars THEN {TRUE} ELSE BOOLEAN

V5OpenChoices == IF V5FirstOfDay THEN BOOLEAN ELSE {FALSE}

\* qqq_daily gets the day's row: the window after the day's last bar.
V5WindowAfter(last, qd) ==
    IF last THEN PushClose(v5_window, qd, SmaPeriod) ELSE v5_window

\* `if d not in prev_sma: continue`
V5SkipBar ==
    /\ v5_pc = "loop"
    /\ v5_loc.i < V5Bars
    /\ WindowMean(v5_window, SmaPeriod) = NaN
    /\ \E last \in V5LastChoices, open \in V5OpenChoices :
       \E qd \in IF last THEN SignalPrices ELSE {0} :
          /\ v5_window' = V5WindowAfter(last, qd)
          /\ v5_loc' = [V5NoLocals EXCEPT
                          !.i = v5_loc.i + 1, !.d = V5Date,
                          !.is_market_open = open, !.is_last_bar = last,
                          !.path = "skip"]
    /\ UNCHANGED <<v5_capital, v5_shares, v5_entry_price, v5_highest,
                   v5_last_exit_date, v5_trades, v5_in_position,
                   v5_prev_above_sma, v5_eod_above_sma, v5_pending_eod_exit,
                   v5_pc, othervars>>

\* `if prev_above_sma is None: prev_above_sma = above_sma; continue`
V5InitSignal ==
    /\ v5_pc = "loop"
    /\ v5_loc.i < V5Bars
    /\ WindowMean(v5_window, SmaPeriod) # NaN
    /\ v5_prev_above_sma = None
    /\ \E last \in V5LastChoices, open \in V5OpenChoices, q \in SignalPrices :
       \E qd \in IF last THEN SignalPrices ELSE {0} :
       \E above \in {AboveSma(q, WindowMean(v5_window, SmaPeriod))} :
          /\ v5_window' = V5WindowAfter(last, qd)
          /\ v5_prev_above_sma' = Py(above)
          /\ v5_loc' = [V5NoLocals EXCEPT
                          !.i = v5_loc.i + 1, !.d = V5Date,
                          !.is_market_open = open, !.is_last_bar = last,
                          !.path = "init", !.above_sma = above]
    /\ UNCHANGED <<v5_capital, v5_shares, v5_entry_price, v5_highest,
                   v5_last_exit_date, v5_trades, v5_in_position,
                   v5_eod_above_sma, v5_pending_eod_exit, v5_pc, othervars>>

\* The bar's prices matter to the iteration: a position is open, or the
\* iteration opens one.  The prices of the other bars are left out.
V5PricesRead(d, open, above) ==
    \/ v5_in_position
    \/ /\ v5_last_exit_date # d
       /\ \/ v5_pending_eod_exit = "entry" /\ open
          \/ v5_prev_above_sma # "True" /\ above

\* The rest of the loop body.
V5TradeBar ==
    /\ v5_pc = "loop"
    /\ v5_loc.i < V5Bars
    /\ WindowMean(v5_window, SmaPeriod) # NaN
    /\ v5_prev_above_sma # None
    /\ \E last \in V5LastChoices, open \in V5OpenChoices, q \in SignalPrices :
       \E qd \in IF last THEN SignalPrices ELSE {0} :
       \E above \in {AboveSma(q, WindowMean(v5_window, SmaPeriod))},
          w \in {V5WindowAfter(last, qd)} :
       \E c, h, l \in IF V5PricesRead(V5Date, open, above)
                      THEN V5TradePrices ELSE {0} :
          /\ l <= c /\ c <= h
          /\ \E b \in {[i |-> v5_loc.i + 1, d |-> V5Date,
                        is_market_open |-> open, is_last_bar |-> last,
                        above_sma |-> above,
                        tqqq_close |-> c, tqqq_high |-> h, tqqq_low |-> l,
                        daily_close |-> qd,
                        daily_sma |-> WindowMean(w, SmaPeriod)]} :
             \E st \in {V5Body(V5State, b)} :
                /\ v5_window' = w
                /\ v5_capital' = st.capital
                /\ v5_shares' = st.shares
                /\ v5_entry_price' = st.entry_price
                /\ v5_highest' = st.highest
                /\ v5_last_exit_date' = st.last_exit_date
                /\ v5_trades' = st.trades
                /\ v5_in_position' = st.in_position
                /\ v5_prev_above_sma' = st.prev_above_sma
                /\ v5_eod_above_sma' = st.eod_above_sma
                /\ v5_pending_eod_exit' = st.pending_eod_exit
                /\ v5_loc' = [i |-> b.i, d |-> b.d,
                              is_market_open |-> open, is_last_bar |-> last,
                              path |-> st.path, above_sma |-> above,
                              tqqq_close |-> c, tqqq_high |-> h,
                              tqqq_low |-> l,
                              eod_exit |-> st.eod_exit,
                              eod_entry |-> st.eod_entry,
                              exit_reason |-> st.exit_reason,
                              entered |-> st.entered,
                              latched |-> st.latched]
    /\ UNCHANGED <<v5_pc, othervars>>

\* # Close open position, with the last row of tqqq_15
V5CloseOpen ==
    /\ v5_pc = "loop"
    /\ v5_loc.i = 0 \/ v5_loc.is_last_bar
    /\ v5_pc' = "done"
    /\ IF v5_in_position /\ v5_trades # <<>>
          /\ v5_trades[Len(v5_trades)].exit_dt = NoTs
       THEN \E last_price \in V5TradePrices :
               LET pnl == RMul(v5_shares,
                               RSub(RInt(last_price), v5_entry_price))
               IN /\ v5_trades' = [v5_trades EXCEPT ![Len(v5_trades)] =
                        [@ EXCEPT !.exit_dt = Ts(v5_loc.d, v5_loc.i),
                                  !.exit_price = RInt(last_price),
                                  !.pnl = Round2(pnl),
                                  !.exit_reason = "OPEN"]]
                  /\ v5_capital' = RMul(v5_shares, RInt(last_price))
       ELSE UNCHANGED <<v5_trades, v5_capital>>
    /\ UNCHANGED <<v5_window, v5_shares, v5_entry_price, v5_highest,
                   v5_last_exit_date, v5_in_position, v5_prev_above_sma,
                   v5_eod_above_sma, v5_pending_eod_exit, v5_loc, othervars>>

\* ------------------------------------------------------ specifications

Init == InitBacktest /\ IdleRerun /\ IdleDaily /\ IdleV5

Next == SkipBar \/ InitSignal \/ TradeBar \/ CloseOpen \/ PrintReport

Spec == Init /\ [][Next]_vars

NextDaily == DailyBar \/ DailyFinish

DailyInit == IdleBacktest /\ IdleRerun /\ InitDaily /\ IdleV5

SpecDaily == DailyInit /\ [][NextDaily]_vars

NextRerun ==
    FirstRunStart \/ FirstRunBar \/ FirstRunEnd \/ SecondRunBar \/ SecondRunEnd

RerunInit == InitBacktest /\ StartRerun /\ IdleDaily /\ IdleV5

SpecRerun == RerunInit /\ [][NextRerun]_vars

UnfundedInit == InitUnfunded /\ IdleRerun /\ IdleDaily /\ IdleV5

SpecUnfunded == UnfundedInit /\ [][Next]_vars

NextV5 == V5SkipBar \/ V5InitSignal \/ V5TradeBar \/ V5CloseOpen

V5Init == IdleBacktest /\ IdleRerun /\ IdleDaily /\ InitV5

SpecV5 == V5Init /\ [][NextV5]_vars

\* ------------------------------------------------- claims on run_backtest

\* A ledger record whose exit has not been filled in, and one whose exit has.
IsOpenRecord(t) ==
    /\ t.exit_dt = NoTs /\ t.exit_price = NaN /\ t.raw_exit_price = NaN
    /\ t.pnl = NaN /\ t.exit_reason = None

IsClosedRecord(t) ==
    /\ t.exit_dt # NoTs /\ t.exit_price # NaN /\ t.raw_exit_price # NaN
    /\ t.pnl # NaN /\ t.exit_reason # None

\* The records with a null exit field.
OpenRecords == {i \in 1..Len(trades) : ~IsClosedRecord(trades[i])}

LastTrade == trades[Len(trades)]

\* Every entry of acts finds the position flat and every exit finds it open.
RECURSIVE FillsAlternate(_, _)
FillsAlternate(acts, pos) ==
    IF acts = <<>> THEN TRUE
    ELSE IF Head(acts).kind = "entry"
         THEN ~pos /\ FillsAlternate(Tail(acts), TRUE)
         ELSE pos /\ FillsAlternate(Tail(acts), FALSE)

\* C1: after any prefix of the bars at most one ledger record has null exit
\* fields, it is the last record, in_position holds exactly when there is
\* one, and within a bar no entry is executed while in position and no exit
\* while flat.
C1_SinglePosition ==
    pc = "loop" =>
        /\ Cardinality(OpenRecords) <= 1
        /\ \A i \in OpenRecords : i = Len(trades) /\ IsOpenRecord(trades[i])
        /\ in_position <=> OpenRecords # {}
        /\ FillsAlternate(loc.acts, loc.pos_before)

\* A second position is open behind a closed one.
C1_Witness == pc = "loop" /\ in_position /\ Len(trades) >= 2

\* C2 as claimed: no position is opened on the date of an earlier exit,
\* whatever the exit's kind.
C2_NoEntryOnAnyExitDate ==
    \A i, j \in 1..Len(trades) :
        (i < j /\ trades[i].exit_dt # NoTs)
            => trades[j].entry_dt.date # trades[i].exit_dt.date

\* C2 amended: no position is opened on the date of an earlier stop exit
\* or intraday SMA exit; the pending end-of-day exit executed at the
\* session's first bar does not bar an entry on its date.
C2_NoEntryOnStopOrSmaExitDate ==
    \A i, j \in 1..Len(trades) :
        (i < j /\ trades[i].exit_reason \in {"STOP", "SMA EXIT"})
            => trades[j].entry_dt.date # trades[i].exit_dt.date

\* A bullish cross on the date of a stop or intraday SMA exit was suppressed.
C2_Witness ==
    /\ loc.cooldown
    /\ Len(trades) > 0
    /\ LastTrade.exit_reason \in {"STOP", "SMA EXIT"}
    /\ LastTrade.exit_dt.date = loc.d

\* C3 as claimed: at most one fill is executed per bar.
C3_OneFillPerBar == Len(loc.acts) <= 1

\* C3 amended: a bar executes at most one exit and at most one entry, and
\* two fills on one bar are the pending end-of-day exit at the session's
\* first bar followed by an entry.
C3_FillsPerBar ==
    /\ Len(loc.acts) <= 2
    /\ Len(loc.acts) = 2 =>
          /\ loc.is_first_bar
          /\ loc.acts[1] = [kind |-> "exit", reason |-> "SMA EXIT (EOD)"]
          /\ loc.acts[2].kind = "entry"

\* The pending exit and an entry were executed on the same bar.
C3_Witness == Len(loc.acts) = 2

\* The stop was evaluated in the iteration and was hit.
StopExitBar == loc.path = "trade" /\ loc.exit_reason = "STOP"

\* C4 as claimed: a stop exit is filled at active_stop if the bar's high is
\* above active_stop, and at the bar's close otherwise.
C4_StopFillHighAbove ==
    StopExitBar =>
        LastTrade.raw_exit_price =
            IF RLt(loc.active_stop, RInt(loc.tqqq_high))
            THEN loc.active_stop ELSE RInt(loc.tqqq_close)

\* C4 amended: a stop exit is filled at active_stop if the bar's high is at
\* or above active_stop, and at the bar's close only if the high is below it.
C4_StopFillHighAtOrAbove ==
    StopExitBar =>
        /\ RLe(RInt(loc.tqqq_low), loc.active_stop)
        /\ LastTrade.raw_exit_price =
              IF RLe(loc.active_stop, RInt(loc.tqqq_high))
              THEN loc.active_stop ELSE RInt(loc.tqqq_close)

\* A stop exit on a bar whose high equals active_stop and whose close is lower.
C4_Witness ==
    /\ StopExitBar
    /\ RInt(loc.tqqq_high) = loc.active_stop
    /\ loc.tqqq_close < loc.tqqq_high

\* The position was open at CHECK EXITS, the bar's low is at or below
\* active_stop and the signal went from above to not above the SMA.
StopAndCrossBar ==
    /\ loc.path = "trade"
    /\ loc.active_stop # NaN
    /\ RLe(RInt(loc.tqqq_low), loc.active_stop)
    /\ loc.prev_before = "True"
    /\ ~loc.above_sma

\* C6: on a bar where the stop is hit and the signal crosses down, exactly
\* one exit is recorded and its reason is STOP.
C6_StopBeforeSmaExit ==
    StopAndCrossBar =>
        /\ loc.acts = <<[kind |-> "exit", reason |-> "STOP"]>>
        /\ LastTrade.exit_reason = "STOP"
        /\ LastTrade.exit_dt = Ts(loc.d, loc.ts)

\* Such a bar that is not its session's last, so that the SMA exit applies too.
C6_Witness == StopAndCrossBar /\ ~loc.is_last_bar

\* The simulation state run_backtest starts the loop with.
Untouched ==
    /\ capital = RInt(StartCapital) /\ shares = RInt(0)
    /\ trades = <<>> /\ ~in_position /\ ~pending_eod_exit
    /\ last_exit_date = NoDate /\ highest = RInt(0)
    /\ total_slippage_cost = RInt(0) /\ total_commission_cost = RInt(0)

\* C8: the first bar for which a signal value can be computed only
\* initialises prev_above_sma: it executes no fill and leaves capital, the
\* ledger and the latch as they were.
C8_FirstSampleOnlyInitialises ==
    [][(loc.path \in {None, "skip"} /\ loc'.path \notin {None, "skip"})
          => /\ loc'.path = "init"
             /\ loc'.acts = <<>>
             /\ prev_above_sma' = Py(loc'.above_sma)
             /\ UNCHANGED <<capital, shares, trades, in_position,
                            pending_eod_exit, last_exit_date, highest>>]_vars

\* The first sample is above the SMA and is its session's last bar.
C8_Witness == loc.path = "init" /\ loc.above_sma /\ loc.is_last_bar

\* The first date on which the SMA is defined.
FirstSmaDate == CHOOSE sd \in DOMAIN sma_by_date : \A x \in DOMAIN sma_by_date : sd <= x

\* C9: a bar whose date has no strictly earlier date with a defined SMA is
\* skipped and changes nothing, so no ledger entry is dated on or before the
\* first date on which the SMA is defined.
C9_NotReadySkips ==
    /\ (loc.ts > 0 /\ loc.d <= FirstSmaDate) => (loc.path = "skip" /\ Untouched)
    /\ loc.path = "skip" => (Untouched /\ prev_above_sma = None)
    /\ \A i \in 1..Len(trades) : trades[i].entry_dt.date > FirstSmaDate

\* A bar on the first date on which the SMA is defined was skipped.
C9_Witness == loc.path = "skip" /\ loc.d = FirstSmaDate

\* C10: when run_backtest returns no ledger record has null exit fields, and
\* a position still open after the last bar has been closed with reason OPEN.
C10_NoOpenRecordAtReturn ==
    pc = "done" =>
        /\ \A i \in 1..Len(trades) : IsClosedRecord(trades[i])
        /\ in_position =>
              /\ LastTrade.exit_reason = "OPEN"
              /\ LastTrade.exit_price =
                    apply_slippage(LastTrade.raw_exit_price, "sell", slippage)
              /\ LastTrade.exit_dt.bar >= loc.ts

\* run_backtest has returned with a position that was open after the last bar.
C10_Witness ==
    pc = "done" /\ in_position /\ Len(trades) > 0 /\ LastTrade.exit_reason = "OPEN"

\* run_backtest has returned and the last record was closed after the loop.
ForceClosed ==
    pc = "done" /\ Len(trades) > 0 /\ LastTrade.exit_reason = "OPEN"

\* C11: a position still open at the end is closed at the close of the last
\* bar the loop processed, and the exit timestamp is that bar's timestamp.
C11_ForceCloseAtLastProcessedBar ==
    ForceClosed =>
        /\ LastTrade.exit_dt = Ts(loc.d, loc.ts)
        /\ LastTrade.raw_exit_price = RInt(loc.tqqq_close)

\* The fills the ledger records: an entry per record, an exit per record
\* closed inside the loop.
LoopFills(trs) ==
    Len(trs) + Cardinality({i \in 1..Len(trs) :
                               trs[i].exit_reason \notin {None, "OPEN"}})

\* C12 as claimed: at the return every fill, the forced close included, has
\* been charged: total_commission_cost = 2 * n * commission.
C12_CommissionOnEveryFill ==
    pc = "done" =>
        total_commission_cost = RInt(2 * Len(trades) * commission)

\* C12 amended: every entry and every exit executed inside the loop is
\* charged the commission, the close of a position still open at the end of
\* the data is not: total_commission_cost is the commission times the
\* number of fills of the loop, which at the return is 2 * n, less one when
\* the last record was closed with reason OPEN.
C12_CommissionOnLoopFills ==
    /\ total_commission_cost = RInt(LoopFills(trades) * commission)
    /\ ForceClosed =>
          /\ total_commission_cost = RInt((2 * Len(trades) - 1) * commission)
          /\ LastTrade.commission = 0
          /\ capital = RMul(shares, LastTrade.exit_price)
    /\ (pc = "done" /\ ~ForceClosed) =>
          total_commission_cost = RInt(2 * Len(trades) * commission)

\* A run with a commission that closed a trade inside the loop and another
\* one after it.
C12_Witness ==
    ForceClosed /\ commission > 0 /\ Len(trades) >= 2

\* C14: without a transition of the signal from not above to above the SMA
\* the ledger stays empty, capital stays the starting capital and the
\* slippage and commission totals stay zero, whatever the frictions: the
\* first record is appended on a bar with such a transition, and until then
\* nothing has been spent.
C14_NoCrossNoTrade ==
    /\ [](trades = <<>> =>
            /\ capital = RInt(StartCapital)
            /\ total_slippage_cost = RInt(0)
            /\ total_commission_cost = RInt(0)
            /\ ~in_position)
    /\ [][(Len(trades') > Len(trades))
             => (loc'.prev_before = "False" /\ loc'.above_sma)]_vars

\* A run with frictions over every bar has returned an empty ledger.
C14_Witness ==
    /\ pc = "done" /\ trades = <<>>
    /\ loc.ts = MaxBars /\ loc.path = "trade"
    /\ commission > 0 /\ slippage > 0

\* C15: the win rate print_report prints is the number of records with
\* pnl > 0 over the number of records, and is at most 100%.
C15_WinRateIsWinsOverTotal ==
    (pc = "reported" /\ Len(trades) > 0) =>
        /\ win_rate = Rat(100 * Cardinality(Wins(trades)), Len(trades))
        /\ RLe(win_rate, RInt(100))

\* C16: sma_by_date has a value for a date exactly when sma_period daily
\* closes up to and including the date exist, the value is the mean of the
\* last sma_period closes with the date's own, and daily_close_by_date holds
\* the closes of the same dates.
C16_SmaDefinedFromWindow ==
    pc # "idle" =>
        /\ DOMAIN sma_by_date = {d \in 1..Len(qqq_daily) : d >= sma_period}
        /\ \A d \in DOMAIN sma_by_date :
              /\ sma_by_date[d].d > 0
              /\ sma_by_date[d].n * sma_period =
                    sma_by_date[d].d * SumCloses(qqq_daily, d - sma_period + 1, d)
        /\ DOMAIN daily_close_by_date = DOMAIN sma_by_date
        /\ \A d \in DOMAIN daily_close_by_date :
              daily_close_by_date[d] = qqq_daily[d]

\* The loop runs with an SMA whose window holds two different closes.
C16_Witness ==
    /\ pc = "loop" /\ loc.ts > 0
    /\ \E d \in DOMAIN sma_by_date : d > 1 /\ qqq_daily[d] # qqq_daily[d - 1]

\* C17: every record has entry_price = raw_entry_price * (1 + slippage), at
\* or above the raw price, and once closed exit_price = raw_exit_price *
\* (1 - slippage), at or below the raw price; fill and raw price are equal
\* exactly when slippage is zero.
C17_SlippageAgainstTheTrade ==
    \A i \in 1..Len(trades) :
        LET t == trades[i]
        IN /\ t.entry_price = RMul(t.raw_entry_price, OnePlus(slippage))
           /\ RLe(t.raw_entry_price, t.entry_price)
           /\ (t.entry_price = t.raw_entry_price) <=> (slippage = 0)
           /\ t.exit_dt # NoTs =>
                 /\ t.exit_price = RMul(t.raw_exit_price, OneMinus(slippage))
                 /\ RLe(t.exit_price, t.raw_exit_price)
                 /\ (t.exit_price = t.raw_exit_price) <=> (slippage = 0)

\* With slippage, one record was closed inside the loop and one after it.
C17_Witness ==
    /\ slippage > 0 /\ ForceClosed
    /\ \E i \in 1..Len(trades) : trades[i].exit_reason \in {"STOP", "SMA EXIT"}

\* The bar just processed is the last of its session and its date has an SMA.
SessionEnd ==
    /\ pc = "loop" /\ loc.path \in {"init", "trade"}
    /\ loc.is_last_bar /\ loc.d \in DOMAIN sma_by_date

\* eod_above of the date of the bar just processed
EodAbove == AboveSma(daily_close_by_date[loc.d], sma_by_date[loc.d])

\* The step processes the next bar of common_ts.
NextBarStep == loc'.ts = loc.ts + 1

\* C18: when a session ends with the position open and the daily close not
\* above the day's SMA, the latch is set, and the next bar processed is the
\* first bar of its session, closes the position at its close with reason
\* 'SMA EXIT (EOD)' before anything else and clears the latch (which only
\* that bar's own EOD check, for a position opened on it, sets again).
C18_EodExitAtNextOpen ==
    /\ []((SessionEnd /\ in_position /\ ~EodAbove) => pending_eod_exit)
    /\ [][(SessionEnd /\ in_position /\ ~EodAbove /\ NextBarStep) =>
            /\ loc'.is_first_bar /\ loc'.d > loc.d
            /\ Len(loc'.acts) >= 1
            /\ loc'.acts[1] = [kind |-> "exit", reason |-> "SMA EXIT (EOD)"]
            /\ Len(trades') >= Len(trades)
            /\ LET t == trades'[Len(trades)]
               IN /\ t.exit_reason = "SMA EXIT (EOD)"
                  /\ t.exit_dt = Ts(loc'.d, loc'.ts)
                  /\ t.raw_exit_price = RInt(loc'.tqqq_close)
            /\ pending_eod_exit' =>
                  (loc'.is_last_bar /\ in_position' /\ Len(loc'.acts) = 2)]_vars

\* The first bar of a session executed the pending exit and nothing else.
C18_Witness ==
    /\ pc = "loop" /\ loc.is_first_bar
    /\ loc.acts = <<[kind |-> "exit", reason |-> "SMA EXIT (EOD)"]>>
    /\ ~pending_eod_exit /\ ~in_position

\* The session ended flat with a bullish EOD signal while the signal of its
\* last bar was not above the SMA.
EodBullishFlat ==
    SessionEnd /\ ~in_position /\ EodAbove /\ ~loc.above_sma

\* C19 as claimed: after a session that ends flat with a bullish EOD signal
\* and a bearish intraday signal, a position is opened at the first bar of
\* the next session at that bar's close.
C19_EodBullishEntersAtNextOpen ==
    [][(EodBullishFlat /\ NextBarStep) =>
          /\ in_position'
          /\ Len(trades') = Len(trades) + 1
          /\ trades'[Len(trades')].entry_dt = Ts(loc'.d, loc'.ts)
          /\ trades'[Len(trades')].raw_entry_price = RInt(loc'.tqqq_close)]_vars

\* C19 amended: no entry is latched.  When the last bar of such a session
\* ran the EOD check, prev_above_sma is True after it and the first bar of
\* the next session executes no fill, whatever its signal.
C19_EodBullishNoEntryAtNextOpen ==
    /\ []((EodBullishFlat /\ loc.path = "trade") => prev_above_sma = "True")
    /\ [][(EodBullishFlat /\ loc.path = "trade" /\ NextBarStep) =>
            (loc'.acts = <<>> /\ ~in_position' /\ trades' = trades)]_vars

\* After such a session the next session's first bar is above the SMA and
\* opens no position.
C19_Witness ==
    /\ pc = "loop" /\ loc.path = "trade" /\ loc.is_first_bar
    /\ loc.prev_before = "True" /\ loc.above_sma
    /\ ~loc.pos_before /\ ~in_position /\ loc.acts = <<>>
    /\ loc.d - 1 \in DOMAIN sma_by_date
    /\ AboveSma(daily_close_by_date[loc.d - 1], sma_by_date[loc.d - 1])

\* C20: after the last bar of a session whose date has an SMA,
\* prev_above_sma is the EOD signal of that date, on every path through the
\* loop body.
C20_PrevIsEodSignalAtSessionEnd ==
    SessionEnd => prev_above_sma = Py(EodAbove)

\* The stop CHECK EXITS would have computed for a position with this entry
\* price and this high water mark on a bar with this high.
StopFor(entry, high, tqqq_high) ==
    ActiveStop(FixedStop(entry, FIXED_STOP_PCT),
               TrailingStop(UpdateHighest(high, tqqq_high), TRAILING_STOP_PCT))

\* C21: a bar that is the first of its session and finds the latch set and
\* the position open closes the position at its close with reason
\* 'SMA EXIT (EOD)', whatever its low; CHECK EXITS does not run on it (no
\* stop is computed) and highest keeps its value, unless an entry on the same
\* bar starts it anew at the bar's high.
C21_PendingExitPreemptsStop ==
    [][(pc = "loop" /\ pending_eod_exit /\ in_position /\ NextBarStep
          /\ loc'.is_first_bar) =>
          /\ loc'.acts # <<>>
          /\ loc'.acts[1] = [kind |-> "exit", reason |-> "SMA EXIT (EOD)"]
          /\ LET t == trades'[Len(trades)]
             IN /\ t.exit_reason = "SMA EXIT (EOD)"
                /\ t.exit_dt = Ts(loc'.d, loc'.ts)
                /\ t.raw_exit_price = RInt(loc'.tqqq_close)
          /\ loc'.active_stop = NaN /\ loc'.exit_reason = None
          /\ \/ highest' = highest
             \/ Len(loc'.acts) = 2 /\ highest' = RInt(loc'.tqqq_high)]_vars

\* The pending exit was executed on a bar whose low is at or below the stop
\* of the position and whose high is above its high water mark.
C21_Witness ==
    /\ pc = "loop" /\ loc.is_first_bar
    /\ loc.acts = <<[kind |-> "exit", reason |-> "SMA EXIT (EOD)"]>>
    /\ StopHit(loc.tqqq_low,
               StopFor(LastTrade.entry_price, highest, loc.tqqq_high))
    /\ RLt(highest, RInt(loc.tqqq_high))

\* The bar just processed is the last of its session, found the position
\* open at CHECK EXITS with the signal above the SMA before it and not above
\* on it, and did not touch the stop.
BearishCrossOnLastBar ==
    /\ SessionEnd /\ loc.path = "trade"
    /\ loc.pos_before /\ loc.active_stop # NaN
    /\ loc.prev_before = "True" /\ ~loc.above_sma
    /\ loc.exit_reason # "STOP"

\* C22: no record is closed with reason 'SMA EXIT' at the last bar of a
\* session; a bearish cross on such a bar (the stop not touched) executes no
\* fill, leaves the position open, and the EOD check of that bar decides:
\* the latch is set exactly when the daily close is not above the day's SMA.
C22_NoSmaExitOnLastBar ==
    /\ (pc = "loop" /\ loc.is_last_bar) =>
          \A i \in 1..Len(trades) :
              trades[i].exit_reason = "SMA EXIT"
                  => trades[i].exit_dt # Ts(loc.d, loc.ts)
    /\ BearishCrossOnLastBar =>
          /\ loc.acts = <<>> /\ in_position /\ IsOpenRecord(LastTrade)
          /\ pending_eod_exit <=> ~EodAbove

\* A bearish cross on a session's last bar left the position open although
\* the daily close is above the day's SMA.
C22_Witness == BearishCrossOnLastBar /\ EodAbove /\ ~pending_eod_exit

\* The iteration reached CHECK ENTRIES with a bearish-to-bullish cross: the
\* position was flat with the signal not above the SMA before the bar, or
\* the pending exit was executed on the bar, and the bar is above the SMA.
CrossAtEntryCheck ==
    /\ pc = "loop" /\ loc.path = "trade" /\ loc.above_sma
    /\ \/ ~loc.pos_before /\ loc.prev_before = "False"
       \/ /\ loc.acts # <<>>
          /\ loc.acts[1] = [kind |-> "exit", reason |-> "SMA EXIT (EOD)"]

\* The entry was executed in the iteration.
EntryExecuted ==
    /\ loc.acts # <<>> /\ loc.acts[Len(loc.acts)].kind = "entry"
    /\ in_position /\ LastTrade.entry_dt = Ts(loc.d, loc.ts)

\* The ledger's records closed before CHECK ENTRIES of the iteration.
ExitsBeforeEntryCheck ==
    IF EntryExecuted THEN 1..(Len(trades) - 1) ELSE 1..Len(trades)

\* The most recent exit is of date d and is a stop or intraday SMA exit.
LastExitBars(d) ==
    /\ ExitsBeforeEntryCheck # {}
    /\ LET t == trades[SetMax(ExitsBeforeEntryCheck)]
       IN t.exit_dt.date = d /\ t.exit_reason \in {"STOP", "SMA EXIT"}

\* C23: a bearish-to-bullish cross at CHECK ENTRIES on date D is suppressed
\* exactly when the ledger's most recent exit is a 'STOP' or 'SMA EXIT' of
\* date D, and opens a position otherwise, the exit 'SMA EXIT (EOD)' of
\* date D included.
C23_CooldownExactlyAfterIntradayExit ==
    CrossAtEntryCheck =>
        /\ loc.cooldown <=> LastExitBars(loc.d)
        /\ ~loc.cooldown <=> EntryExecuted

\* A position was opened on a later bar of the date whose first bar executed
\* the pending exit.
C23_Witness ==
    /\ CrossAtEntryCheck /\ EntryExecuted /\ ~loc.is_first_bar
    /\ Len(trades) >= 2
    /\ trades[Len(trades) - 1].exit_reason = "SMA EXIT (EOD)"
    /\ trades[Len(trades) - 1].exit_dt.date = loc.d

\* C24: every ledger record has shares > 0 and capital is never negative,
\* also when the commission is no less than the capital.
C24_NoEntryWithoutCapital ==
    /\ \A i \in 1..Len(trades) : RLt(RInt(0), trades[i].shares)
    /\ ~RLt(capital, RInt(0))

\* The capital CHECK ENTRIES of the step's bar finds: the capital before the
\* bar, or the proceeds of the pending exit executed on the bar.
CapitalAtEntry ==
    IF Len(loc'.acts) = 2
    THEN RSub(RMul(shares, trades'[Len(trades)].exit_price), RInt(commission))
    ELSE capital

\* C25: a step that appends a record invests all of the capital:
\* shares = (capital - commission) / (close * (1 + slippage)), the capital
\* left is what the shares cost at the entry price, the record's
\* entry timestamp is the bar's, and highest is the bar's high.
C25_EntryInvestsAllCapital ==
    [][Len(trades') = Len(trades) + 1 =>
          LET t == trades'[Len(trades')]
              cost == RMul(RInt(loc'.tqqq_close), OnePlus(slippage))
          IN /\ t.shares = RDiv(RSub(CapitalAtEntry, RInt(commission)), cost)
             /\ shares' = t.shares
             /\ t.entry_price = cost /\ entry_price' = cost
             /\ t.raw_entry_price = RInt(loc'.tqqq_close)
             /\ capital' = RSub(CapitalAtEntry, RInt(commission))
             /\ RMul(shares', entry_price') = capital'
             /\ t.entry_dt = Ts(loc'.d, loc'.ts)
             /\ highest' = RInt(loc'.tqqq_high)
             /\ in_position']_vars

\* A position was opened with slippage and commission on a bar whose high
\* is above its close, after an earlier round trip changed the capital.
C25_Witness ==
    /\ pc = "loop" /\ EntryExecuted
    /\ slippage > 0 /\ commission > 0
    /\ loc.tqqq_high > loc.tqqq_close
    /\ Len(trades) >= 2
    /\ highest = RInt(loc.tqqq_high)

\* C26: a step, the end-of-data close included, keeps every record whose
\* exit fields are filled as it is, changes at most the last record and
\* only while its exit fields are null, filling them all, and otherwise
\* only appends one open record.
C26_LedgerAppendOnly ==
    [][/\ Len(trades') \in {Len(trades), Len(trades) + 1}
       /\ \A i \in 1..Len(trades) :
             /\ IsClosedRecord(trades[i]) => trades'[i] = trades[i]
             /\ trades'[i] # trades[i] =>
                   /\ i = Len(trades)
                   /\ IsOpenRecord(trades[i]) /\ IsClosedRecord(trades'[i])
                   /\ trades'[i].entry_dt = trades[i].entry_dt
                   /\ trades'[i].entry_price = trades[i].entry_price
                   /\ trades'[i].shares = trades[i].shares
       /\ Len(trades') = Len(trades) + 1 =>
             IsOpenRecord(trades'[Len(trades')])]_vars

\* The run has returned with a record closed inside the loop before the
\* record the end-of-data close filled.
C26_Witness ==
    /\ pc = "done" /\ ForceClosed /\ Len(trades) >= 2
    /\ trades[1].exit_reason \in {"STOP", "SMA EXIT", "SMA EXIT (EOD)"}

\* The bars of common_ts the loop has processed, by their number.
ProcessedBars == 1..loc.ts

\* C27: every entry and exit timestamp of the ledger is the timestamp of a
\* bar of common_ts that the loop processed; a row of the trade series
\* whose timestamp is not in common_ts gives no record its exit.
C27_OnlyCommonTimestampsUsed ==
    \A i \in 1..Len(trades) :
        /\ trades[i].entry_dt.bar \in ProcessedBars
        /\ trades[i].exit_dt # NoTs => trades[i].exit_dt.bar \in ProcessedBars

SamePosition ==
    in_position /\ in_position' /\ Len(trades') = Len(trades)

\* C34: highest is the running maximum of the bar highs of the open
\* position: the bar that opens a position sets it to that bar's high,
\* whatever it was; a bar on which the stop of the position is evaluated
\* raises it to the bar's high if that is higher; no other step changes it
\* while the position stays open.
C34_HighestIsRunningMax ==
    /\ [][Len(trades') = Len(trades) + 1 =>
            highest' = RInt(loc'.tqqq_high)]_vars
    /\ [][SamePosition =>
            highest' = IF NextBarStep /\ loc'.active_stop # NaN
                       THEN RMax(highest, RInt(loc'.tqqq_high))
                       ELSE highest]_vars

\* The stop of the open position was evaluated on a bar whose high is
\* below the position's high water mark.
C34_Witness ==
    /\ pc = "loop" /\ in_position /\ loc.path = "trade"
    /\ loc.pos_before /\ loc.active_stop # NaN
    /\ RLt(RInt(loc.tqqq_high), highest)

\* CHECK EXITS ran in the iteration just executed.
StopWasEvaluated == pc = "loop" /\ loc.path = "trade" /\ loc.active_stop # NaN

\* The stop the state holds for the open position: the one of its last
\* evaluated bar, or of its entry bar if none was evaluated yet.
HeldStop == StopFor(entry_price, highest, 0)

\* C35: an evaluated active_stop is at least entry_price*(1-FIXED_STOP_PCT)
\* of the evaluated position; while the position is open the state holds the
\* stop of its last evaluated bar, and the next evaluation of the position,
\* the one that closes it included, is not below it; a stop exit filled at
\* active_stop is filled at or above entry_price*(1-FIXED_STOP_PCT).
C35_ActiveStopNeverFalls ==
    /\ [](StopWasEvaluated =>
            /\ RLe(FixedStop(LastTrade.entry_price, FIXED_STOP_PCT),
                   loc.active_stop)
            /\ in_position => loc.active_stop = HeldStop)
    /\ []((StopExitBar /\ LastTrade.raw_exit_price = loc.active_stop) =>
            RLe(RSub(LastTrade.entry_price, LastTrade.raw_exit_price),
                RMul(LastTrade.entry_price, Rat(FIXED_STOP_PCT, 1000))))
    /\ [][(in_position /\ NextBarStep /\ loc'.active_stop # NaN) =>
            RLe(HeldStop, loc'.active_stop)]_vars

\* A stop exit was filled at an active_stop that the trailing stop had
\* raised above the fixed stop.
C35_Witness ==
    /\ StopExitBar /\ LastTrade.raw_exit_price = loc.active_stop
    /\ RLt(loc.fixed_stop, loc.active_stop)

\* C36 as claimed: at the return the final capital is the starting capital
\* plus the sum of the records' pnl, up to half a cent of rounding per
\* record, so the last end_bal of compute_yearly_breakdown is the final
\* capital up to that rounding.
C36_CapitalIsStartPlusPnl ==
    pc = "done" =>
        RLe(RAbs(RSub(capital, LastEndBal(trades, StartCapital))),
            Rat(Len(trades), 200))

\* a <= b for two timestamps
TsLe(a, b) == a.date < b.date \/ (a.date = b.date /\ a.bar <= b.bar)

\* C37: the i-th record of the ledger has trade_num i; a record's exit
\* timestamp, once filled, is not before its entry timestamp; every record
\* but the last has its exit filled, not after the next record's entry; and
\* the ledger returned has every exit filled.
C37_LedgerOrdered ==
    /\ \A i \in 1..Len(trades) :
          /\ trades[i].trade_num = i
          /\ trades[i].exit_dt # NoTs =>
                TsLe(trades[i].entry_dt, trades[i].exit_dt)
          /\ i < Len(trades) =>
                /\ trades[i].exit_dt # NoTs
                /\ TsLe(trades[i].exit_dt, trades[i + 1].entry_dt)
    /\ pc = "done" => \A i \in 1..Len(trades) : trades[i].exit_dt # NoTs

\* The ledger returned has a record closed on the bar that opened its
\* successor, and its last record was closed after the bar that opened it.
C37_Witness ==
    /\ pc = "done" /\ Len(trades) >= 2
    /\ \E i \in 1..(Len(trades) - 1) :
          trades[i].exit_dt = trades[i + 1].entry_dt
    /\ TsLe(trades[Len(trades)].entry_dt, trades[Len(trades)].exit_dt)
    /\ trades[Len(trades)].entry_dt # trades[Len(trades)].exit_dt

LastV3Trade == v3_trades[Len(v3_trades)]

\* The iteration evaluated the stops of an open position.
StopEvaluated == v3_pc = "loop" /\ v3_loc.path = "held"

\* The iteration recorded a stop exit.
V3StopExit ==
    /\ StopEvaluated
    /\ v3_loc.act = "exit"
    /\ LastV3Trade.exit_reason \in {"TRAIL", "FIXED"}

\* The iteration recorded an SMA exit.
V3SmaExit ==
    /\ StopEvaluated
    /\ v3_loc.act = "exit"
    /\ LastV3Trade.exit_reason = "SMA"

\* The row's low is at or below max(fixed_stop, trailing_stop).
LowTouchesStop == RLe(RInt(v3_loc.tqqq_low), v3_loc.effective_stop)

\* C5: in backtest_v3, an open position is stopped out on the first day
\* whose trade-instrument low is at or below max(fixed_stop, trailing_stop)
\* and on no earlier day: on every day the stops are evaluated and no SMA
\* exit is taken, a stop exit is recorded exactly when the low touches the
\* effective stop.
C5_StopOutOnFirstLowTouch ==
    (StopEvaluated /\ ~V3SmaExit) => (LowTouchesStop <=> V3StopExit)

\* C7: whenever the stops are evaluated, the effective stop is
\* max(entry_price*(1-fixed_pct), high_since_entry*(1-trailing_pct)), the
\* stop type is TRAIL exactly when trailing_stop >= fixed_stop (a tie is
\* TRAIL) and FIXED otherwise, and a stop exit is recorded with that type.
C7_EffectiveStopAndType ==
    StopEvaluated =>
      LET f100 == (100 - V3_FIXED_STOP_PCT) * v3_loc.pos_entry_price
          t100 == (100 - V3_TRAILING_STOP_PCT) * v3_loc.pos_high
      IN /\ v3_loc.effective_stop = Rat(IMax(f100, t100), 100)
         /\ v3_loc.stop_type = (IF t100 >= f100 THEN "TRAIL" ELSE "FIXED")
         /\ (v3_loc.act = "exit" /\ LastV3Trade.exit_reason # "SMA")
              => LastV3Trade.exit_reason = v3_loc.stop_type

\* A stop exit on a tie of the two stops, recorded as TRAIL.
C7_Witness ==
    /\ V3StopExit
    /\ v3_loc.fixed_stop = v3_loc.trailing_stop
    /\ LastV3Trade.exit_reason = "TRAIL"


\* The step is an iteration that opens a position.
V3Opens == v3_loc'.i = v3_loc.i + 1 /\ v3_loc'.act = "entry"

\* C29: a position is opened only on a day whose SMA is defined and whose
\* previous row's SMA is defined.
C29_NoEntryBeforeSmaReady ==
    [][V3Opens => (qqq_prev'.sma # NaN /\ qqq_prev.sma # NaN)]_vars


\* The step is the iteration of the next trading day after an exit, and that
\* day shows a bearish-to-bullish cross or confirms the signal memory.
EntryDueAfterExit ==
    /\ v3_pc = "loop" /\ v3_loc.act = "exit"
    /\ v3_loc'.i = v3_loc.i + 1
    /\ v3_loc'.above_sma_today
    /\ signal_memory \/ ~V3Above(qqq_prev.close, qqq_prev.sma)

\* C30: on the next trading day after an exit, the day after the exit's
\* date included, a bearish-to-bullish cross or a pending signal-memory
\* re-entry opens a position.
C30_CooldownOnlyOnExitDate ==
    [][EntryDueAfterExit =>
          (v3_loc'.act = "entry" /\ position' # NoPosition)]_vars


\* The step is an iteration of the loop.
V3Step == v3_loc'.i = v3_loc.i + 1

V3HeldOpen == StopEvaluated /\ position # NoPosition

\* The high since entry has reached entry_price*(1-fixed_pct)/(1-trailing_pct).
ReachedSwitch(price, high) ==
    RLe(RMul(RInt(price),
             Rat(100 - V3_FIXED_STOP_PCT, 100 - V3_TRAILING_STOP_PCT)),
        RInt(high))

\* C32: within a position the trailing stop never falls and a stop type of
\* TRAIL stays TRAIL on the next bar, the fixed stop staying what it was;
\* the type is TRAIL exactly when the high since entry has reached
\* entry_price*(1-fixed_pct)/(1-trailing_pct).
C32_StopTypeSwitchesOnce ==
    /\ [](StopEvaluated =>
            (v3_loc.stop_type = "TRAIL"
                <=> ReachedSwitch(v3_loc.pos_entry_price, v3_loc.pos_high)))
    /\ [][(V3HeldOpen /\ V3Step) =>
            /\ v3_loc'.path = "held"
            /\ v3_loc'.pos_entry_price = v3_loc.pos_entry_price
            /\ v3_loc'.fixed_stop = v3_loc.fixed_stop
            /\ RLe(v3_loc.trailing_stop, v3_loc'.trailing_stop)
            /\ v3_loc.stop_type = "TRAIL" => v3_loc'.stop_type = "TRAIL"]_vars

\* The stop type is TRAIL on a bar whose high is below the high since entry,
\* and the position stays open.
C32_Witness ==
    /\ V3HeldOpen /\ v3_loc.stop_type = "TRAIL"
    /\ v3_loc.tqqq_high < v3_loc.pos_high

\* ---------------------------------------------------- claims on sma50_v5

V5Step == v5_loc'.i = v5_loc.i + 1

\* C33: a pending end-of-day action does not outlive the first processed bar
\* of the next session: after every bar a latch that is still set was set by
\* that bar's own end-of-day check, and a bar that executes a pending exit
\* or entry follows the bar whose end-of-day check set the latch.
C33_LatchSpentAtNextBar ==
    [][V5Step =>
         /\ Truthy(v5_pending_eod_exit') => v5_loc'.latched
         /\ (v5_loc'.eod_exit \/ v5_loc'.eod_entry) => v5_loc.latched]_vars

====
